---- MODULE Spec2Model ----
(***************************************************************************)
(* A model of the oyster-api indexing service.                             *)
(*                                                                         *)
(*   SpecEvents  the partitioned event store (packages/db/src/cache.ts,    *)
(*               class Events): create, destroyOne, findOne, findAll,      *)
(*               findAllOrderByBTLASC, with the caller's transaction.      *)
(*   SpecSource  the Source plugin (base-plugins/src/plugins/source.ts)    *)
(*               against a node that mines blocks and pushes logs and      *)
(*               heads over a WebSocket, with Storage as its consumer.     *)
(*   SpecSnapshots  the Snapshots plugin (plugins/snapshots.ts) with       *)
(*               getSnapshot / replay / saveSnapshot, fed by Storage and   *)
(*               rewound by Reorg, until Core.stop.                        *)
(*   SpecHandler, SpecJsonRpc, SpecStorage  the snapshot request handler,  *)
(*               the JSON-RPC client and Storage.processLogs.              *)
(*   SpecBackpressure, SpecRemoved  the Source plugin on a connection that *)
(*               stays up: the sleep of the sync loop, and the logs a      *)
(*               reorganized node takes back.                              *)
(*   SpecCoroutine  Storage.onNewEvent with its slices, transactions and   *)
(*               retries beside Reorg.checkEventsAndCommit, which blocks   *)
(*               it (unnamed/part_008, unnamed/part_007), from Core.init   *)
(*               to Core.stop and the next start.                          *)
(*   SpecWebSocket  the WebSocket wrapper (unnamed/part_001) with its keep  *)
(*               alive and reconnect timers and the subscribers that call  *)
(*               reconnect() when eth_subscribe fails.                     *)
(*   SpecSubTables, SpecBlocks  the sub-table models Events.init prepares  *)
(*               across runs of the process, and Blocks.getBlock with its  *)
(*               per-block lock.                                           *)
(***************************************************************************)
EXTENDS Integers, Sequences, FiniteSets, TLC

\* ------------------------------------------------------------------ bounds

\* block numbers range over 0..MaxBlock
MaxBlock == 2
\* the store is driven while fewer than MaxSize events are counted / stored
MaxSize == 3
\* page sizes tried by the scans are 1..MaxLimit
MaxLimit == 2
\* at most MaxTransactions transactions are begun in a run
MaxTransactions == 1

\* the node mines blocks 1..MaxHead
MaxHead == 3
\* the WebSocket connection is lost at most MaxLosses times
MaxLosses == 1

\* the logs handed to Storage and Reorg lie in blocks 1..MaxSnapshotBlock
MaxSnapshotBlock == 3
\* Reorg supplements a missed event at most MaxReorgs times
MaxReorgs == 1
\* the API handles at most MaxRequests requests
MaxRequests == 2
\* a JSONRPCWebSocket makes at most MaxRpcRequests requests
MaxRpcRequests == 3
\* a newEvent batch holds at most MaxBatch logs, and Storage.processLogs is
\* applied at most MaxApplications times
MaxBatch == 2

MaxApplications == 3

\* Source emits newEvent at most MaxArrivals times, a batch holding at most
\* MaxNewEvent logs; the database fails at most MaxFailures times; Reorg finds
\* a missed event at most MaxRecoveries times; the process is restarted on its
\* database at most MaxRestarts times
MaxArrivals == 2

MaxNewEvent == 3

MaxFailures == 1

MaxRecoveries == 1

MaxRestarts == 1

\* a slice is retried while fewer than MaxDeliveries newParsedEvent events have
\* been emitted
MaxDeliveries == 4

MaxNodeReorgs == 1

\* reconciliations of Reorg
MaxReconciliations == 1

\* EventIndex rows, and runs of the process, of the sub-table model
MaxSubTables == 32

MaxInits == 3

\* callers of Blocks.getBlock, the block numbers they ask for, and their calls
MaxCallers == 3

MaxKeys == 2

MaxCalls == 4

\* maxSizeForSingleTable (N_max): a constructor parameter, 1000000 by default
\* and 10 in the test-suite; scaled down here
maxSizeForSingleTable == 2

\* SourceConfig.confirmation (C) and SourceConfig.batchSize, scaled down
confirmation == 1

batchSize == 2

\* SourceConfig.threshold, scaled down: the depth of the log channel at which
\* the sync loop suspends
sourceThreshold == 2

\* the sync loop stops extending its target after this many rounds
replayTimesLimit == 10

\* ------------------------------------------------------------------ values

BlockNumbers == 0..MaxBlock

\* (transactionIndex, logIndex) pairs occurring in a block; the two orders
\* disagree on purpose, so that the lexicographic comparison matters
TxLogPairs == {<<0, 1>>, <<1, 0>>}

\* blockHash variants of a block handed to the store
BlockHashes == {0}

\* calcEventId: sha256 over (chainId, address, blockHash, txHash, logIndex),
\* modelled as the injective tuple of what it hashes
calcEventId(blockNumber, blockHash, transactionIndex, logIndex) ==
    <<blockNumber, blockHash, transactionIndex, logIndex>>

\* the events (EventStructure) that may be handed to the store
MkEvent(b, h, p) ==
    [id |-> calcEventId(b, h, p[1], p[2]), blockNumber |-> b, blockHash |-> h,
     transactionIndex |-> p[1], logIndex |-> p[2]]

AllEvents == {MkEvent(b, h, p) : b \in BlockNumbers, h \in BlockHashes, p \in TxLogPairs}

\* ------------------------------------------------------------------ helpers

SetMin(S) == CHOOSE x \in S : \A y \in S : x <= y

SetMax(S) == CHOOSE x \in S : \A y \in S : x >= y

MathMax(a, b) == IF a >= b THEN a ELSE b

MathMin(a, b) == IF a <= b THEN a ELSE b

\* the set of elements of a sequence
Range(s) == {s[i] : i \in 1..Len(s)}

RECURSIVE SeqSum(_)
SeqSum(s) == IF s = <<>> THEN 0 ELSE Head(s) + SeqSum(Tail(s))

RECURSIVE Flatten(_)
Flatten(ss) == IF ss = <<>> THEN <<>> ELSE Head(ss) \o Flatten(Tail(ss))

\* compareLog(a, b) < 0 : a is before b in (blockNumber, transactionIndex, logIndex)
LogBefore(a, b) ==
    \/ a.blockNumber < b.blockNumber
    \/ a.blockNumber = b.blockNumber /\ a.transactionIndex < b.transactionIndex
    \/ a.blockNumber = b.blockNumber /\ a.transactionIndex = b.transactionIndex
       /\ a.logIndex < b.logIndex

SamePosition(a, b) ==
    /\ a.blockNumber = b.blockNumber
    /\ a.transactionIndex = b.transactionIndex
    /\ a.logIndex = b.logIndex

\* the rows of a set in ORDER BY blockNumber, transactionIndex, logIndex ASC
RECURSIVE OrderByBTL(_)
OrderByBTL(S) ==
    IF S = {} THEN <<>>
    ELSE LET first == CHOOSE x \in S : \A y \in S : ~LogBefore(y, x)
         IN  <<first>> \o OrderByBTL(S \ {first})

\* ------------------------------------------------------------------ state

VARIABLES
    indexes,      \* Events.indexes: the EventIndex instances held in memory
    dbIndexes,    \* the EventIndex rows of the database
    tables,       \* the rows of the sub-tables events_{chainId}_{k}
    transaction,  \* the caller's transaction: its state and the rollback image
    ascending,    \* history: only succeeding creates of increasing blocks so far
    transactions  \* history: number of transactions begun so far

eventsVars == <<indexes, dbIndexes, tables, transaction, ascending, transactions>>

VARIABLES
    nodeHead,         \* the node: number of its newest block
    nodeReorgs,       \* the node: the reorganizations of its chain so far
    nodeLogs,         \* the node: the logs of its getLogs view
    connected,        \* jsonrpc.ws.isConnected
    subscriptions,    \* LogSubscriber.subscriptions (addresses)
    subscribing,      \* addresses with an eth_subscribe request in flight
    subscriptionIds,  \* LogSubscriber.subscriptionIds (addresses subscribed at the node)
    notifications,    \* eth_subscription log notifications on their way
    losses,           \* history: number of connection losses so far
    instruments,      \* Source.instruments
    fetcherAddresses, \* LogFetcher.subscriptions (addresses)
    pendingLogs,      \* Source.pendingLogs
    confirmingLogs,   \* Source.confirmingLogs
    logs,             \* Source.logs.pending: the batches in the log channel
    head,             \* Source.latestBlockNumber (Undefined until the first head)
    blockNumbers,     \* Source.blockNumbers.pending
    syncing,          \* Source.syncing: where the running sync pass stands
    syncTarget,       \* Source.syncTarget
    current,          \* _sync: current
    times,            \* _sync: times
    fetching,         \* _sync: the range and addresses of the getLogs request in flight
    synced,           \* Source.synced
    storedLogs,       \* the events Storage has written to the event store
    storageBlockNumber, \* Storage.cache.blockNumber
    sourceStopped     \* Plugin.stopped as the Source sees it, set before onStop

sourceVars ==
    <<nodeHead, nodeLogs, nodeReorgs, connected, subscriptions, subscribing, subscriptionIds,
      notifications, losses, instruments, fetcherAddresses, pendingLogs,
      confirmingLogs, logs, head, blockNumbers, syncing, syncTarget, current, times,
      fetching, synced, storedLogs, storageBlockNumber, sourceStopped>>

VARIABLES
    storedEvents,    \* the rows of the event store, as Storage and Reorg commit them
    snapshotTable,   \* the rows of the Snapshots table
    snapshotsChannel, \* Snapshots.channel.pending
    latestSnapshot,  \* Snapshots.latestSnapshot and latestPosition, or neither
    cacheBlockNumber, \* Snapshots.cache.blockNumber
    working,         \* Snapshots.work: where the handler of a reorged message stands
    flag,            \* replay: the abort listener has fired
    stopped,         \* Core.stopped
    reorging,        \* Snapshots.reorging is pending
    reorgPhase,      \* Reorg.checkEventsAndCommit: where it stands
    reorgBlockNumber, \* the block number of the reorg under way
    reorgs           \* history: number of reorgs so far

snapshotsVars ==
    <<storedEvents, snapshotTable, snapshotsChannel, latestSnapshot, cacheBlockNumber, working, flag,
      stopped, reorging, reorgPhase, reorgBlockNumber, reorgs>>

\* the Handler: the generating map (id -> AbortController), the generated map
\* (id -> Snapshot), the requests handled so far and the last response
VARIABLES generating, generated, requests, response

handlerVars == <<generating, generated, requests, response>>

\* JSONRPCWebSocket: the id counter, the requests map, the timers and the
\* promises of the requests made, the requests the server has yet to answer,
\* and whether stop() was called
VARIABLES rpcId, rpcRequests, timeOuts, promises, inbox, closed

jsonRpcVars == <<rpcId, rpcRequests, timeOuts, promises, inbox, closed>>

\* Storage: the Event rows and the Instrument rows, StorageCache.blockNumber,
\* the handler calls made and the newParsedEvent and newStoredBlockNumber
\* events emitted so far, and the batches processLogs was applied to
VARIABLES eventRows, instrumentRows, storageCache, handlerCalls, parsedEvents,
          storedBlockNumbers, appliedBatches

\* history: the number of reconciliations of Reorg so far, and the range and
\* the fetched logs of the last one
VARIABLE reconciled

storageProcessVars ==
    <<eventRows, instrumentRows, storageCache, handlerCalls, parsedEvents,
      storedBlockNumbers, appliedBatches, reconciled>>

\* the Storage coroutine and the Reorg coroutine that blocks it
VARIABLES
    phase,                \* "init" during Core.init, "running" after Core.start
    processing,           \* Storage.processing
    blocked,              \* Storage.blocked is set
    blocking,             \* Storage.blocking is set
    storageAt,            \* where Storage.onNewEvent stands
    pendingChunks,        \* the slices of the batch not processed yet
    committedRows,        \* the committed Event rows
    committedBlockNumber, \* the committed StorageCache row
    cacheInMemory,        \* Storage.cache.blockNumber
    deliveries,           \* the logs newParsedEvent was emitted for, in order
    reorgAt,              \* where Reorg.checkEventsAndCommit stands
    missed,               \* the missed event Reorg has found
    noopHandle,           \* the handle Reorg got is the one of a stopped Storage
    reorgSteps,           \* history: the steps of the recovery under way or last
    coreStopped,          \* Core.stopped
    failures,             \* history: transient database failures so far
    arrivals,             \* history: newEvent emissions so far
    recoveries,           \* history: missed events found so far
    restarts              \* history: restarts of the process so far

coroutineVars ==
    <<phase, processing, blocked, blocking, storageAt, pendingChunks, committedRows,
      committedBlockNumber, cacheInMemory, deliveries, reorgAt, missed, noopHandle, reorgSteps,
      coreStopped, failures, arrivals, recoveries, restarts>>

\* WebSocket, and the eth_subscribe requests of its subscribers
VARIABLES
    ws,             \* this.ws: "none", or a socket that is "connecting" or "open"
    wsConnected,    \* this.connected
    closing,        \* this.closing
    reconnecting,   \* this.reconnecting: the reconnect timer is armed
    keepAlive,      \* timeOut of connect(): the keep alive time-out is armed
    socketClosing,  \* ws.close() was called on the socket
    closedListener, \* the once('closed') listener of reconnect() is registered
    ethSubscribe,   \* the eth_subscribe request of each subscriber
    wsStarted,      \* JSONRPCWebSocket.start() was called
    disconnected,   \* JSONRPCWebSocket.stop() was called by the owner
    lastEmitted     \* history: the last event the WebSocket emitted

webSocketVars ==
    <<ws, wsConnected, closing, reconnecting, keepAlive, socketClosing, closedListener,
      ethSubscribe, wsStarted, disconnected, lastEmitted>>

\* the sub-tables of Events across the runs of the process
VARIABLES
    models,        \* Events.models: the indexes of the sub-tables synced in this run
    indexCount,    \* the number of EventIndex rows
    initializing,  \* Events.initializing is set
    unknownModel,  \* history: getModel threw 'unknown model' in this run
    sinceInit,     \* history: the sub-tables allocated since init() of this run
    inits          \* history: the runs of the process so far

subTableVars == <<models, indexCount, initializing, unknownModel, sinceInit, inits>>

\* Blocks: the block cache and the callers of getBlock
VARIABLES
    blockCache,   \* Blocks.cache: the block numbers it holds
    locks,        \* Blocks.locks: per block number, the semaphore and ref, or no entry
    callerAt,     \* where each caller of getBlock stands
    callerKey,    \* the block number each caller asked for
    returned,     \* history: how the last call of each caller ended
    blockCalls    \* history: the calls of getBlock so far

blocksVars == <<blockCache, locks, callerAt, callerKey, returned, blockCalls>>

vars ==
    <<eventsVars, sourceVars, snapshotsVars, handlerVars, jsonRpcVars, storageProcessVars,
      coroutineVars, webSocketVars, subTableVars, blocksVars>>

\* ------------------------------------------------------- the event store

\* sub-tables are numbered from 1 here (EventIndex.index + 1)
TableIds == 1..(MaxBlock + 1)

NoTransaction == [state |-> "none", tables |-> <<>>, dbIndexes |-> {}]

InitEvents ==
    /\ indexes = <<>>
    /\ dbIndexes = {}
    /\ tables = [k \in TableIds |-> {}]
    /\ transaction = NoTransaction
    /\ ascending = TRUE
    /\ transactions = 0

\* Events.indexSize
indexSize == Len(indexes)

\* Events.instanceSize
instanceSize == SeqSum([k \in 1..Len(indexes) |-> indexes[k].size])

\* Events.latestBlockNumber
latestBlockNumber == IF Len(indexes) > 0 THEN indexes[Len(indexes)].blockNumber ELSE 0

\* number of event rows in all sub-tables
RowCount == SeqSum([k \in 1..(MaxBlock + 1) |-> Cardinality(tables[k])])

AllRows == UNION {tables[k] : k \in TableIds}

\* `previous` of the loops over this.indexes
Previous(k) == IF k = 1 THEN -1 ELSE indexes[k - 1].blockNumber

\* previous < blockNumber && blockNumber <= index.blockNumber
InRange_LeftClosed(k, blockNumber) ==
    Previous(k) <= blockNumber /\ blockNumber <= indexes[k].blockNumber

InRange(k, blockNumber) == Previous(k) < blockNumber /\ blockNumber <= indexes[k].blockNumber

\* the first index of the loop whose range holds blockNumber, 0 if none
FirstInRange(blockNumber) ==
    LET hits == {k \in 1..Len(indexes) : InRange(k, blockNumber)}
    IN  IF hits = {} THEN 0 ELSE SetMin(hits)

\* a query condition: where { id?, blockNumber? } plus the explicit block number
\* (blockNumber holds where.blockNumber ?? explicitBlockNumber)
NoId == <<>>

NoBlock == -1

Condition(id, blockNumber, whereBlock) ==
    [id |-> id, blockNumber |-> blockNumber, whereBlock |-> whereBlock]

Matches(row, cond) ==
    /\ cond.id # NoId => row.id = cond.id
    /\ cond.whereBlock => row.blockNumber = cond.blockNumber

\* the primary key (id) and the unique index
\* (chainId, blockNumber, transactionIndex, logIndex) of a sub-table
UniqueViolation(k, event) ==
    \E row \in tables[k] : row.id = event.id \/ SamePosition(row, event)

\* index.save(): UPDATE of the EventIndex row, if the database holds it
SaveIndex(db, k, index) ==
    {IF row.index = k
        THEN [index |-> k, blockNumber |-> index.blockNumber, size |-> index.size]
        ELSE row : row \in db}

\* Events.findOne: probe the sub-tables whose range holds the block number
Null == <<"null">>

FindOne(cond) ==
    LET hits == {k \in 1..Len(indexes) :
                    /\ cond.blockNumber = NoBlock \/ InRange(k, cond.blockNumber)
                    /\ \E row \in tables[k] : Matches(row, cond)}
    IN  IF hits = {} THEN Null
        ELSE CHOOSE row \in tables[SetMin(hits)] : Matches(row, cond)

\* Events.create: where the event goes
CreateTarget_NoRoomCheck(event) ==
    LET k == FirstInRange(event.blockNumber)
    IN  IF Len(indexes) > 0 /\ k # 0 THEN [kind |-> "range", k |-> k]
        ELSE IF Len(indexes) > 0 THEN [kind |-> "tail", k |-> Len(indexes)]
        ELSE [kind |-> "new", k |-> Len(indexes) + 1]

CreateTarget_RoomInclusive(event) ==
    LET k == FirstInRange(event.blockNumber)
    IN  IF Len(indexes) > 0 /\ k # 0 THEN [kind |-> "range", k |-> k]
        ELSE IF Len(indexes) > 0 /\ indexes[Len(indexes)].size <= maxSizeForSingleTable
             THEN [kind |-> "tail", k |-> Len(indexes)]
        ELSE [kind |-> "new", k |-> Len(indexes) + 1]

CreateTarget(event) ==
    LET k == FirstInRange(event.blockNumber)
    IN  IF Len(indexes) > 0 /\ k # 0 THEN [kind |-> "range", k |-> k]
        ELSE IF Len(indexes) > 0 /\ indexes[Len(indexes)].size < maxSizeForSingleTable
             THEN [kind |-> "tail", k |-> Len(indexes)]
        ELSE [kind |-> "new", k |-> Len(indexes) + 1]

\* Events.insert: the index after "update max block number" and "increase size"
InsertIndex_NoMax(index, event) ==
    [blockNumber |-> event.blockNumber, size |-> index.size + 1]

InsertIndex(index, event) ==
    [blockNumber |-> MathMax(index.blockNumber, event.blockNumber), size |-> index.size + 1]

\* Events.create(event, options): the index is changed in memory and saved
\* before model.create(event) runs, which throws on a constraint violation; a
\* failed statement aborts the caller's transaction
Create(event) ==
    /\ transaction.state # "aborted"
    /\ instanceSize < MaxSize
    /\ RowCount < MaxSize
    /\ LET target == CreateTarget(event)
           threw == UniqueViolation(target.k, event)
       IN  /\ indexes' =
                IF target.kind = "new"
                THEN Append(indexes, [blockNumber |-> event.blockNumber, size |-> 1])
                ELSE [indexes EXCEPT ![target.k] = InsertIndex(@, event)]
           /\ dbIndexes' =
                IF target.kind = "new"
                THEN dbIndexes \cup {[index |-> target.k,
                                      blockNumber |-> event.blockNumber, size |-> 1]}
                ELSE SaveIndex(dbIndexes, target.k, indexes'[target.k])
           /\ tables' = IF threw THEN tables
                        ELSE [tables EXCEPT ![target.k] = @ \cup {event}]
           /\ transaction' = IF threw /\ transaction.state = "open"
                             THEN [transaction EXCEPT !.state = "aborted"]
                             ELSE transaction
           /\ ascending' = (ascending /\ ~threw /\ target.kind # "range")
    /\ UNCHANGED transactions

\* Events.destroyOne(condition, explicitBlockNumber)
DestroyedRows(cond) ==
    LET k == FirstInRange(cond.blockNumber)
    IN  IF k = 0 THEN {} ELSE {row \in tables[k] : Matches(row, cond)}

DestroyOne(cond) ==
    /\ transaction.state # "aborted"
    /\ LET k == FirstInRange(cond.blockNumber)
           destroyed == DestroyedRows(cond)
       IN  IF destroyed = {}
           THEN UNCHANGED <<indexes, dbIndexes, tables, ascending>>
           ELSE /\ tables' = [tables EXCEPT ![k] = @ \ destroyed]
                /\ indexes' = [indexes EXCEPT ![k].size = @ - Cardinality(destroyed)]
                /\ dbIndexes' = SaveIndex(dbIndexes, k, indexes'[k])
                /\ ascending' = FALSE
    /\ UNCHANGED <<transaction, transactions>>

\* sequelize.transaction()
Begin ==
    /\ transaction.state = "none"
    /\ transactions < MaxTransactions
    /\ transactions' = transactions + 1
    /\ transaction' = [state |-> "open", tables |-> tables, dbIndexes |-> dbIndexes]
    /\ UNCHANGED <<indexes, dbIndexes, tables, ascending>>

\* transaction.commit()
Commit ==
    /\ transaction.state = "open"
    /\ transaction' = NoTransaction
    /\ UNCHANGED <<indexes, dbIndexes, tables, ascending, transactions>>

\* transaction.rollback(): the database goes back, the EventIndex instances in
\* memory do not
Rollback ==
    /\ transaction.state \in {"open", "aborted"}
    /\ tables' = transaction.tables
    /\ dbIndexes' = transaction.dbIndexes
    /\ transaction' = NoTransaction
    /\ ascending' = (ascending /\ tables = transaction.tables)
    /\ UNCHANGED <<indexes, transactions>>

\* ---------------------------------------------------------------- scans

\* `from`: a block number or an EventPosition; `to`: undefined, a block number
\* or an EventPosition
FromNumber(b) ==
    [kind |-> "number", blockNumber |-> b, transactionIndex |-> 0, logIndex |-> 0]

FromPosition(b, p) ==
    [kind |-> "position", blockNumber |-> b, transactionIndex |-> p[1], logIndex |-> p[2]]

ToUndefined ==
    [kind |-> "undefined", blockNumber |-> 0, transactionIndex |-> 0, logIndex |-> 0]

\* fromCondition: blockNumber > from, or (b, t, l) > from lexicographically
fromCondition(from, row) ==
    IF from.kind = "number" THEN row.blockNumber > from.blockNumber
    ELSE \/ row.blockNumber > from.blockNumber
         \/ row.blockNumber = from.blockNumber
            /\ row.transactionIndex > from.transactionIndex
         \/ row.blockNumber = from.blockNumber
            /\ row.transactionIndex = from.transactionIndex
            /\ row.logIndex > from.logIndex

\* toCondition: none, blockNumber <= to, or (b, t, l) <= to lexicographically
toCondition(to, row) ==
    CASE to.kind = "undefined" -> TRUE
      [] to.kind = "number" -> row.blockNumber <= to.blockNumber
      [] OTHER ->
            \/ row.blockNumber < to.blockNumber
            \/ row.blockNumber = to.blockNumber
               /\ row.transactionIndex < to.transactionIndex
            \/ row.blockNumber = to.blockNumber
               /\ row.transactionIndex = to.transactionIndex
               /\ row.logIndex <= to.logIndex

\* where: { [Op.and]: [fromCondition, toCondition] }
Where(where, row) == fromCondition(where.from, row) /\ toCondition(where.to, row)

\* model.findAll({ where, order: BTL ASC, offset, limit }) on sub-table k
ModelFindAll(k, where, offset, limit) ==
    LET rows == OrderByBTL({row \in tables[k] : Where(where, row)})
    IN  SubSeq(rows, offset + 1, MathMin(Len(rows), offset + limit))

\* what findAllOrderByBTLASC sends back into the generator after a batch:
\* the query re-anchored after latestEvent, with offset: 0
AnchoredCondition(latestEvent, to) ==
    [where |-> [from |-> [kind |-> "position",
                          blockNumber |-> latestEvent.blockNumber,
                          transactionIndex |-> latestEvent.transactionIndex,
                          logIndex |-> latestEvent.logIndex],
                to |-> to],
     offset |-> 0]

\* model.findAll({ offset, limit, ...(_condition ?? condition) }): the keys of
\* _condition override the generator's own offset
Requery_KeepOffset(k, offset, limit, _condition) ==
    ModelFindAll(k, _condition.where, offset, limit)

Requery(k, offset, limit, _condition) ==
    ModelFindAll(k, _condition.where, _condition.offset, limit)

\* the while loop of findAll over one sub-table: `events` is the page fetched
\* last; the result is the sequence of batches yielded for this sub-table
RECURSIVE FindAllTable(_, _, _, _, _)
FindAllTable(k, events, offset, limit, to) ==
    IF Len(events) = limit
    THEN LET _condition == AnchoredCondition(events[Len(events)], to)
         IN  <<events>> \o FindAllTable(k, Requery(k, offset + limit, limit, _condition),
                                        offset + limit, limit, to)
    ELSE IF Len(events) > 0 THEN <<events>> ELSE <<>>

\* the sub-tables findAll visits
Selected(k, from, to) ==
    \/ from <= indexes[k].blockNumber /\ indexes[k].blockNumber <= to
    \/ Previous(k) < to /\ to <= indexes[k].blockNumber

\* Events.findAll(condition, explicitFrom, explicitTo) from index k on
RECURSIVE FindAll(_, _, _, _, _)
FindAll(k, where, explicitFrom, explicitTo, limit) ==
    IF k > Len(indexes) THEN <<>>
    ELSE (IF Selected(k, explicitFrom, explicitTo)
          THEN FindAllTable(k, ModelFindAll(k, where, 0, limit), 0, limit, where.to)
          ELSE <<>>)
         \o FindAll(k + 1, where, explicitFrom, explicitTo, limit)

\* Events.findAllOrderByBTLASC(from, to, additional, limit): the batches it
\* yields, or the throw of 'invalid block number'
FindAllOrderByBTLASC(from, to, limit) ==
    LET fromBlockNumber == from.blockNumber
        toBlockNumber == IF to.kind = "undefined" THEN latestBlockNumber ELSE to.blockNumber
    IN  IF fromBlockNumber > toBlockNumber
        THEN [threw |-> TRUE, batches |-> <<>>]
        ELSE [threw |-> FALSE,
              batches |-> FindAll(1, [from |-> from, to |-> to],
                                  fromBlockNumber, toBlockNumber, limit)]

DestroyConditions ==
    {Condition(e.id, b, FALSE) : e \in AllEvents, b \in BlockNumbers}
        \cup {Condition(NoId, b, TRUE) : b \in BlockNumbers}

\* ------------------------------------------------------- the Source plugin

\* an unset field (latestBlockNumber, syncTarget)
Undefined == -1

\* the addresses logs come from: the gate, whose only event here is
\* NewInstrument, and the instrument it creates
Gate == "gate"

Instrument == "instrument"

\* an ethers Log at block b; `promise` is set for the other kind of MixedLog
Log(b, address) ==
    [blockNumber |-> b, transactionIndex |-> 0,
     logIndex |-> IF address = Gate THEN 0 ELSE 1,
     address |-> address, promise |-> FALSE, removed |-> FALSE]

isLog(log) == ~log.promise

\* compareMixedLog(a, b) < 0: by position, a MixedLog with a promise before the
\* Log at the same position
compareMixedLog(a, b) ==
    \/ LogBefore(a, b)
    \/ SamePosition(a, b) /\ ~isLog(a) /\ isLog(b)

\* Array.prototype.sort(compareMixedLog), which is stable
RECURSIVE InsertSorted(_, _)
InsertSorted(sorted, x) ==
    IF sorted = <<>> THEN <<x>>
    ELSE IF compareMixedLog(x, Head(sorted)) THEN <<x>> \o sorted
    ELSE <<Head(sorted)>> \o InsertSorted(Tail(sorted), x)

RECURSIVE SortMixedLogs(_)
SortMixedLogs(s) ==
    IF s = <<>> THEN <<>>
    ELSE InsertSorted(SortMixedLogs(SubSeq(s, 1, Len(s) - 1)), s[Len(s)])

\* provider.getLogs({ address, fromBlock, toBlock }) for a set of addresses
getLogs(from, to, addresses) ==
    {log \in nodeLogs : /\ from <= log.blockNumber
                        /\ log.blockNumber <= to
                        /\ log.address \in addresses}

\* Array.prototype.splice(index, 1)
Splice(s, index) == SubSeq(s, 1, index - 1) \o SubSeq(s, index + 1, Len(s))

\* Source.addConfirmingLogs: a log is pushed, and a removed log of the
\* subscription instead takes the first entry at its position out of
\* confirmingLogs, if there is one (findIndex compares the position and the
\* transaction hash, which a MixedLog with a promise carries as well). A log
\* that getLogs returns never carries removed = true, so that the branch of
\* the fetched logs gives the same
RECURSIVE addConfirmingLogs(_, _)
addConfirmingLogs(confirming, batch) ==
    IF batch = <<>> THEN confirming
    ELSE LET log == Head(batch)
             found == {i \in 1..Len(confirming) : SamePosition(confirming[i], log)}
             next == IF isLog(log) /\ log.removed
                     THEN (IF found # {} THEN Splice(confirming, SetMin(found))
                           ELSE confirming)
                     ELSE Append(confirming, log)
         IN  addConfirmingLogs(next, Tail(batch))

\* Source.addLogs on the given confirmingLogs and channel
addLogs(confirming, channel, batch) ==
    IF head = Undefined
    THEN [confirmingLogs |-> addConfirmingLogs(confirming, batch), logs |-> channel]
    ELSE LET held == SelectSeq(batch, LAMBDA log : log.blockNumber > head - confirmation)
             confirmedLogs ==
                 SelectSeq(batch, LAMBDA log : ~(log.blockNumber > head - confirmation))
         IN  [confirmingLogs |-> IF held # <<>> THEN addConfirmingLogs(confirming, held)
                                 ELSE confirming,
              logs |-> IF confirmedLogs # <<>> THEN Append(channel, confirmedLogs)
                       ELSE channel]

\* Source.confirm with latestBlockNumber = newHead: both branches of its loop
\* push the log to confirmedLogs
confirm(confirming, channel, newHead) ==
    IF confirming = <<>> THEN [confirmingLogs |-> confirming, logs |-> channel]
    ELSE LET sorted == SortMixedLogs(confirming)
             confirmedLogs ==
                 [i \in 1..Len(sorted) |->
                     IF sorted[i].blockNumber > newHead - confirmation
                     THEN sorted[i]
                     ELSE sorted[i]]
         IN  [confirmingLogs |-> <<>>, logs |-> Append(channel, confirmedLogs)]

\* Source.sync: start a pass unless one is running
sync == IF syncing = "idle" THEN "reset" ELSE syncing

\* the filter of Source.resetFetchTarget
AtOrAbove(pending, target) == SelectSeq(pending, LAMBDA log : log.blockNumber >= target)

\* no getLogs request of _sync is in flight
NoRequest == [from |-> 0, to |-> 0, addresses |-> {}]

InitSource ==
    /\ nodeHead = 0
    /\ nodeReorgs = 0
    /\ nodeLogs = {}
    /\ connected = FALSE
    /\ subscriptions = {Gate}
    /\ subscribing = {}
    /\ subscriptionIds = {}
    /\ notifications = <<>>
    /\ losses = 0
    /\ instruments = {}
    /\ fetcherAddresses = {Gate}
    /\ pendingLogs = <<>>
    /\ confirmingLogs = <<>>
    /\ logs = <<>>
    /\ head = Undefined
    /\ blockNumbers = <<>>
    /\ syncing = "reset"
    /\ syncTarget = Undefined
    /\ current = 0
    /\ times = 0
    /\ fetching = NoRequest
    /\ synced = FALSE
    /\ storedLogs = {}
    /\ storageBlockNumber = 0
    /\ sourceStopped = FALSE

nodeVars == <<nodeHead, nodeLogs, nodeReorgs>>

wsVars == <<connected, subscriptions, subscribing, subscriptionIds, notifications, losses>>

syncVars == <<syncing, syncTarget, current, times, fetching>>

storageVars == <<storedLogs, storageBlockNumber>>

\* the node mines a block holding logs of the given addresses and notifies the
\* subscriber; the instrument is created once and logs only from then on
Mine(content) ==
    /\ ~sourceStopped
    /\ nodeHead < MaxHead
    /\ Gate \in content => Gate \notin {log.address : log \in nodeLogs}
    /\ Instrument \in content =>
            Gate \in content \/ Gate \in {log.address : log \in nodeLogs}
    /\ LET new == {Log(nodeHead + 1, address) : address \in content}
       IN  /\ nodeHead' = nodeHead + 1
           /\ nodeLogs' = nodeLogs \cup new
           /\ notifications' =
                IF connected
                THEN notifications \o OrderByBTL({log \in new : log.address \in subscriptionIds})
                ELSE notifications
           /\ blockNumbers' = IF connected THEN Append(blockNumbers, nodeHead + 1)
                              ELSE blockNumbers
    /\ UNCHANGED <<nodeReorgs, connected, subscriptions, subscribing, subscriptionIds, losses,
                   sourceStopped, instruments, fetcherAddresses, pendingLogs, confirmingLogs,
                   logs, head, syncVars, synced, storageVars>>

\* the chain of the node is reorganized from block b on: the logs of the
\* blocks it loses are gone from getLogs, and the subscriber is notified of
\* each of them with removed = true (the blocks that replace them hold no log)
\* and of the head of each block b..nodeHead of the new chain
ChainReorg(b) ==
    /\ ~sourceStopped
    /\ nodeReorgs < MaxNodeReorgs
    /\ LET gone == {log \in nodeLogs : log.blockNumber >= b}
       IN  /\ gone # {}
           /\ nodeReorgs' = nodeReorgs + 1
           /\ nodeLogs' = nodeLogs \ gone
           /\ notifications' =
                IF connected
                THEN notifications \o
                     OrderByBTL({[log EXCEPT !.removed = TRUE] :
                                    log \in {l \in gone : l.address \in subscriptionIds}})
                ELSE notifications
           /\ blockNumbers' =
                IF connected
                THEN blockNumbers \o [i \in 1..(nodeHead - b + 1) |-> b + i - 1]
                ELSE blockNumbers
    /\ UNCHANGED <<nodeHead, connected, subscriptions, subscribing, subscriptionIds, losses,
                   sourceStopped, instruments, fetcherAddresses, pendingLogs, confirmingLogs,
                   logs, head, syncVars, synced, storageVars>>

\* the WebSocket connects: Source.onConnected, then LogSubscriber.onConnected
Connect ==
    /\ ~sourceStopped
    /\ ~connected
    /\ connected' = TRUE
    /\ pendingLogs' = <<>>
    /\ syncing' = sync
    /\ subscribing' = subscriptions
    /\ UNCHANGED <<nodeVars, sourceStopped, subscriptions, subscriptionIds, notifications, losses,
                   instruments, fetcherAddresses, confirmingLogs, logs, head, blockNumbers,
                   syncTarget, current, times, fetching, synced, storageVars>>

\* the connection is lost, with the notifications and requests on their way:
\* Source.onLoss
Loss ==
    /\ ~sourceStopped
    /\ connected
    /\ losses < MaxLosses
    /\ losses' = losses + 1
    /\ connected' = FALSE
    /\ notifications' = <<>>
    /\ subscribing' = {}
    /\ subscriptionIds' = {}
    /\ pendingLogs' = <<>>
    /\ syncing' = sync
    /\ UNCHANGED <<nodeVars, sourceStopped, subscriptions, instruments, fetcherAddresses, confirmingLogs,
                   logs, head, blockNumbers, syncTarget, current, times, fetching, synced,
                   storageVars>>

\* the node answers the eth_subscribe requests: the subscriptions are live
Subscribed ==
    /\ ~sourceStopped
    /\ connected
    /\ subscribing # {}
    /\ subscriptionIds' = subscriptionIds \cup subscribing
    /\ subscribing' = {}
    /\ UNCHANGED <<nodeVars, sourceStopped, connected, subscriptions, notifications, losses, instruments,
                   fetcherAddresses, pendingLogs, confirmingLogs, logs, head, blockNumbers,
                   syncVars, synced, storageVars>>

\* Source.trackNewInstrument(log) finds an instrument it does not know
tracksNewInstrument(log) == log.address = Gate /\ Instrument \notin instruments

\* the MixedLog trackNewInstrument returns: the position of the log and the
\* promise of the instrument's logs of that block
MixedLogOf(log) == [log EXCEPT !.promise = TRUE]

\* an onNewLog that feeds a log below the target of a running pass into addLogs
\* instead of leaving it to the pass
onNewLog_FeedsBelow ==
    /\ ~sourceStopped
    /\ notifications # <<>>
    /\ LET log == Head(notifications)
           tracked == tracksNewInstrument(log)
           mixedLog == IF tracked THEN <<MixedLogOf(log)>> ELSE <<>>
           first == IF tracked THEN addLogs(confirmingLogs, logs, mixedLog)
                    ELSE [confirmingLogs |-> confirmingLogs, logs |-> logs]
           second == addLogs(first.confirmingLogs, first.logs, <<log>>)
       IN  /\ notifications' = Tail(notifications)
           /\ instruments' = IF tracked THEN instruments \cup {Instrument} ELSE instruments
           /\ fetcherAddresses' =
                IF tracked THEN fetcherAddresses \cup {Instrument} ELSE fetcherAddresses
           /\ subscriptions' = IF tracked THEN subscriptions \cup {Instrument} ELSE subscriptions
           /\ subscribing' = IF tracked /\ connected THEN subscribing \cup {Instrument}
                             ELSE subscribing
           /\ IF syncing # "idle" /\ syncTarget > 0 /\ log.blockNumber >= syncTarget
              THEN /\ pendingLogs' = pendingLogs \o mixedLog \o <<log>>
                   /\ UNCHANGED <<confirmingLogs, logs>>
              ELSE /\ confirmingLogs' = second.confirmingLogs
                   /\ logs' = second.logs
                   /\ UNCHANGED pendingLogs
    /\ UNCHANGED <<nodeVars, sourceStopped, connected, subscriptionIds, losses, head, blockNumbers,
                   syncVars, synced, storageVars>>

\* Source.onNewLog(log) for the notification that arrives next
onNewLog ==
    /\ ~sourceStopped
    /\ notifications # <<>>
    /\ LET log == Head(notifications)
           tracked == tracksNewInstrument(log)
           mixedLog == IF tracked THEN <<MixedLogOf(log)>> ELSE <<>>
           first == IF tracked THEN addLogs(confirmingLogs, logs, mixedLog)
                    ELSE [confirmingLogs |-> confirmingLogs, logs |-> logs]
           second == addLogs(first.confirmingLogs, first.logs, <<log>>)
       IN  /\ notifications' = Tail(notifications)
           /\ instruments' = IF tracked THEN instruments \cup {Instrument} ELSE instruments
           /\ fetcherAddresses' =
                IF tracked THEN fetcherAddresses \cup {Instrument} ELSE fetcherAddresses
           /\ subscriptions' = IF tracked THEN subscriptions \cup {Instrument} ELSE subscriptions
           /\ subscribing' = IF tracked /\ connected THEN subscribing \cup {Instrument}
                             ELSE subscribing
           /\ IF syncing # "idle" /\ syncTarget > 0
              THEN /\ pendingLogs' = IF log.blockNumber >= syncTarget
                                     THEN pendingLogs \o mixedLog \o <<log>>
                                     ELSE pendingLogs
                   /\ UNCHANGED <<confirmingLogs, logs>>
              ELSE /\ confirmingLogs' = second.confirmingLogs
                   /\ logs' = second.logs
                   /\ UNCHANGED pendingLogs
    /\ UNCHANGED <<nodeVars, sourceStopped, connected, subscriptionIds, losses, head, blockNumbers,
                   syncVars, synced, storageVars>>

\* Source.processBlockNumbers for the next head: latestBlockNumber, confirm()
processBlockNumbers ==
    /\ ~sourceStopped
    /\ blockNumbers # <<>>
    /\ LET blockNumber == Head(blockNumbers)
           confirmed == confirm(confirmingLogs, logs, blockNumber)
       IN  /\ blockNumbers' = Tail(blockNumbers)
           /\ head' = blockNumber
           /\ confirmingLogs' = confirmed.confirmingLogs
           /\ logs' = confirmed.logs
    /\ UNCHANGED <<nodeVars, sourceStopped, wsVars, instruments, fetcherAddresses, pendingLogs, syncVars,
                   synced, storageVars>>

\* the logs a batch of MixedLogs resolves to: a promise gives the instrument's
\* logs of its block
RECURSIVE Resolve(_)
Resolve(batch) ==
    IF batch = <<>> THEN <<>>
    ELSE (IF isLog(Head(batch)) THEN <<Head(batch)>>
          ELSE OrderByBTL(getLogs(Head(batch).blockNumber, Head(batch).blockNumber,
                                  {Instrument})))
         \o Resolve(Tail(batch))

\* Source.pendingSize: the number of logs in the batches of the channel
RECURSIVE pendingSize(_)
pendingSize(channel) ==
    IF channel = <<>> THEN 0 ELSE Len(Head(channel)) + pendingSize(Tail(channel))

\* Source.awake is set exactly while the sync loop sleeps on its promise
awake == syncing = "suspended"

\* a consumer that never wakes the sync loop up
Wakes_Never(size) == FALSE

\* processLogs wakes the sync loop up
Wakes(size) == awake /\ size < sourceThreshold

\* Source.processLogs for the next batch of the channel: emit newEvent, which
\* Storage.onNewEvent / processLogs writes to the event store unless already
\* there, then try to wake up the sync loop, then maybeEmitSynced
processLogs ==
    /\ ~sourceStopped
    /\ logs # <<>>
    /\ LET batch == Resolve(Head(logs))
           fresh == {batch[i] : i \in 1..Len(batch)} \ storedLogs
       IN  /\ logs' = Tail(logs)
           /\ storedLogs' = storedLogs \cup fresh
           /\ storageBlockNumber' =
                SetMax({storageBlockNumber} \cup {log.blockNumber : log \in fresh})
           /\ syncing' = IF Wakes(pendingSize(Tail(logs))) THEN "resuming" ELSE syncing
           /\ synced' = (synced \/ (syncing = "idle" /\ Tail(logs) = <<>>))
    /\ UNCHANGED <<nodeVars, sourceStopped, wsVars, instruments, fetcherAddresses, pendingLogs,
                   confirmingLogs, head, blockNumbers, syncTarget, current, times, fetching>>

\* the getLogs request of the next round of the sync loop
Request(from, target, addresses) ==
    [from |-> from, to |-> MathMin(from + batchSize, target), addresses |-> addresses]

\* the end of _sync: the pending logs go to addLogs in sorted order
Flush(confirming, channel, pending) == addLogs(confirming, channel, SortMixedLogs(pending))

\* _sync starts: resetFetchTarget, then the first round of the loop asks for logs
SyncStart ==
    /\ ~sourceStopped
    /\ syncing = "reset"
    /\ LET target == nodeHead
           pending == AtOrAbove(pendingLogs, target)
           flushed == Flush(confirmingLogs, logs, pending)
       IN  IF storageBlockNumber <= target
           THEN /\ syncing' = "fetching"
                /\ syncTarget' = target
                /\ pendingLogs' = pending
                /\ current' = storageBlockNumber
                /\ times' = 0
                /\ fetching' = Request(storageBlockNumber, target, fetcherAddresses)
                /\ UNCHANGED <<confirmingLogs, logs>>
           ELSE /\ syncing' = "idle"
                /\ syncTarget' = Undefined
                /\ pendingLogs' = <<>>
                /\ confirmingLogs' = flushed.confirmingLogs
                /\ logs' = flushed.logs
                /\ UNCHANGED <<current, times, fetching>>
    /\ UNCHANGED <<nodeVars, sourceStopped, wsVars, instruments, fetcherAddresses, head, blockNumbers,
                   synced, storageVars>>

\* the rest of a round of the sync loop, after the backpressure check, for the
\* range that ended at `to`: the loop either asks for the next range, or
\* returns because the plugin has stopped, or ends and flushes the pending logs
SyncContinue(to, target, pending, confirming, channel, addresses) ==
    LET atTarget == to = target
        known == atTarget /\ pending # <<>>
        first == IF known THEN pending[1].blockNumber ELSE Undefined
        latest == nodeHead
        break == \/ known /\ first <= target
                 \/ atTarget /\ ~known /\ times + 1 >= replayTimesLimit
                 \/ atTarget /\ ~known /\ target = latest
        target2 == IF known THEN first ELSE IF atTarget THEN latest ELSE target
        flushed == Flush(confirming, channel, pending)
    IN  IF break
        THEN /\ syncing' = "idle"
             /\ syncTarget' = Undefined
             /\ pendingLogs' = <<>>
             /\ confirmingLogs' = flushed.confirmingLogs
             /\ logs' = flushed.logs
             /\ current' = 0
             /\ times' = 0
             /\ fetching' = NoRequest
        ELSE IF sourceStopped
        THEN /\ syncing' = "idle"
             /\ syncTarget' = Undefined
             /\ pendingLogs' = pending
             /\ confirmingLogs' = confirming
             /\ logs' = channel
             /\ current' = 0
             /\ times' = 0
             /\ fetching' = NoRequest
        ELSE /\ syncing' = "fetching"
             /\ current' = to
             /\ times' = IF atTarget /\ ~known THEN times + 1 ELSE times
             /\ syncTarget' = target2
             /\ pendingLogs' = pending
             /\ confirmingLogs' = confirming
             /\ logs' = channel
             /\ fetching' = Request(to, target2, addresses)

\* a round of the sync loop goes on when getLogs answers: new instruments are
\* tracked and fetched, the logs go to addLogs, and the loop sleeps when the
\* channel holds threshold logs or more, and goes on otherwise
SyncFetched ==
    /\ ~sourceStopped
    /\ syncing = "fetching"
    /\ LET from == fetching.from
           to == fetching.to
           fetched == getLogs(from, to, fetching.addresses)
           tracked == /\ Gate \in {log.address : log \in fetched}
                      /\ Instrument \notin instruments
           target1 == IF tracked THEN nodeHead ELSE syncTarget
           pending1 == IF tracked THEN AtOrAbove(pendingLogs, nodeHead) ELSE pendingLogs
           all == fetched \cup (IF tracked THEN getLogs(from, to, {Instrument}) ELSE {})
           added == IF all # {} THEN addLogs(confirmingLogs, logs, OrderByBTL(all))
                    ELSE [confirmingLogs |-> confirmingLogs, logs |-> logs]
           size == pendingSize(added.logs)
           addresses == IF tracked THEN fetcherAddresses \cup {Instrument} ELSE fetcherAddresses
       IN  /\ instruments' = IF tracked THEN instruments \cup {Instrument} ELSE instruments
           /\ fetcherAddresses' = addresses
           /\ subscriptions' = IF tracked THEN subscriptions \cup {Instrument} ELSE subscriptions
           /\ subscribing' = IF tracked /\ connected THEN subscribing \cup {Instrument}
                             ELSE subscribing
           /\ IF size >= sourceThreshold
              THEN /\ syncing' = "suspended"
                   /\ syncTarget' = target1
                   /\ pendingLogs' = pending1
                   /\ confirmingLogs' = added.confirmingLogs
                   /\ logs' = added.logs
                   /\ UNCHANGED <<current, times, fetching>>
              ELSE SyncContinue(to, target1, pending1, added.confirmingLogs, added.logs,
                                addresses)
    /\ UNCHANGED <<nodeVars, sourceStopped, connected, subscriptionIds, notifications, losses,
                   head, blockNumbers, synced, storageVars>>

\* the sync loop goes on after its sleep
SyncResumed ==
    /\ syncing = "resuming"
    /\ SyncContinue(fetching.to, syncTarget, pendingLogs, confirmingLogs, logs,
                    fetcherAddresses)
    /\ UNCHANGED <<nodeVars, sourceStopped, wsVars, instruments, fetcherAddresses, head,
                   blockNumbers, synced, storageVars>>

\* Core.stop and Source.onStop: the listeners are removed, the channels are
\* aborted, which ends the two consumers, and a sleeping sync loop is woken up.
\* Of the Source, a woken sync loop is all that runs on after that
onStop ==
    /\ ~sourceStopped
    /\ sourceStopped' = TRUE
    /\ syncing' = IF awake THEN "resuming" ELSE syncing
    /\ UNCHANGED <<nodeVars, wsVars, instruments, fetcherAddresses, pendingLogs,
                   confirmingLogs, logs, head, blockNumbers, syncTarget, current, times,
                   fetching, synced, storageVars>>

\* ------------------------------ Storage, Reorg and the Snapshots plugin

\* SnapshotConfig.interval and SnapshotConfig.outdated, scaled down
interval == 1

outdated == 2

SnapshotLog(b, l) == [blockNumber |-> b, transactionIndex |-> 0, logIndex |-> l]

\* the logs of the chain: one in every block and a second one in block 1
SnapshotLogs == {SnapshotLog(b, 0) : b \in 1..MaxSnapshotBlock} \cup {SnapshotLog(1, 1)}

\* EventPosition of a log or of a row
EventPosition(e) ==
    [blockNumber |-> e.blockNumber, transactionIndex |-> e.transactionIndex,
     logIndex |-> e.logIndex]

\* the position getSnapshot starts from without a stored snapshot
Origin == [blockNumber |-> 0, transactionIndex |-> 0, logIndex |-> 0]

\* a `to` or `from` argument that is a number / an EventPosition
Number(b) == [kind |-> "number", blockNumber |-> b, transactionIndex |-> 0, logIndex |-> 0]

Position(e) ==
    [kind |-> "position", blockNumber |-> e.blockNumber,
     transactionIndex |-> e.transactionIndex, logIndex |-> e.logIndex]

\* new Snapshot(sdk)
NewSnapshot == <<>>

\* Snapshot.processParsedLog(log, parsedLog) of the SDK: the state is what the
\* logs applied so far, in the order of their application, make it
processParsedLog(snapshot, log) == Append(snapshot, log)

\* the events events.findAllOrderByBTLASC(from, to) yields: left open, right
\* closed, in position order
EventsBetween(from, to) ==
    OrderByBTL({e \in storedEvents : fromCondition(from, e) /\ toCondition(to, e)})

RECURSIVE ProcessAll(_, _)
ProcessAll(snapshot, events) ==
    IF events = <<>> THEN snapshot
    ELSE ProcessAll(processParsedLog(snapshot, Head(events)), Tail(events))

Threw == [threw |-> TRUE, snapshot |-> NewSnapshot, position |-> Origin]

\* replay(events, snapshot, from, to, progress, signal); aborted: the abort
\* listener has fired by the time a batch arrives
replay(snapshot, from, to, aborted) ==
    LET events == EventsBetween(Position(from), to)
    IN  IF from.blockNumber > to.blockNumber THEN Threw
        ELSE IF events = <<>>
        THEN [threw |-> FALSE, snapshot |-> snapshot, position |-> from]
        ELSE IF aborted THEN Threw
        ELSE [threw |-> FALSE, snapshot |-> ProcessAll(snapshot, events),
              position |-> EventPosition(events[Len(events)])]

\* SnapshotTable.findOne({ where: <= to, order: position DESC }), deserialized
StoredBase(to) ==
    LET rows == {row \in snapshotTable : toCondition(to, row)}
    IN  IF rows = {} THEN [snapshot |-> NewSnapshot, position |-> Origin]
        ELSE LET row == CHOOSE r \in rows : \A o \in rows : ~LogBefore(r, o)
             IN  [snapshot |-> row.snapshot, position |-> EventPosition(row)]

\* getSnapshot(sdk, events, to, undefined, progress, signal)
getSnapshot(to, aborted) ==
    replay(StoredBase(to).snapshot, StoredBase(to).position, to, aborted)

\* saveSnapshot(chainId, snapshot, position, transaction) on the given rows
saveSnapshot(table, snapshot, position) ==
    IF \E row \in table : SamePosition(row, position) THEN table
    ELSE table \cup {[blockNumber |-> position.blockNumber,
                      transactionIndex |-> position.transactionIndex,
                      logIndex |-> position.logIndex,
                      snapshot |-> snapshot]}

\* SnapshotTable.destroy({ where: { blockNumber: { [Op.gte]: blockNumber } } })
DestroyFrom(table, blockNumber) == {row \in table : ~(row.blockNumber >= blockNumber)}

NoLatest == [defined |-> FALSE, snapshot |-> NewSnapshot, position |-> Origin]

NewParsedEvent(log) == [type |-> "newParsedEvent", log |-> log, reorgBlockNumber |-> 0]

Reorged(blockNumber) ==
    [type |-> "reorged", log |-> Origin, reorgBlockNumber |-> blockNumber]

\* Snapshots.onInit on an empty database
InitSnapshots ==
    /\ storedEvents = {}
    /\ snapshotTable = {}
    /\ snapshotsChannel = <<>>
    /\ latestSnapshot = [defined |-> TRUE, snapshot |-> NewSnapshot, position |-> Origin]
    /\ cacheBlockNumber = 0
    /\ working = "idle"
    /\ flag = FALSE
    /\ stopped = FALSE
    /\ reorging = FALSE
    /\ reorgPhase = "idle"
    /\ reorgBlockNumber = 0
    /\ reorgs = 0

\* Storage.onNewEvent / processLogs for a log not stored yet: the event is
\* created and newParsedEvent emitted, which Snapshots.onNewParsedEvent pushes
\* to its channel; Storage waits while Reorg blocks it
onNewEvent(log) ==
    /\ ~stopped
    /\ reorgPhase = "idle"
    /\ log \notin storedEvents
    /\ storedEvents' = storedEvents \cup {log}
    /\ snapshotsChannel' = Append(snapshotsChannel, NewParsedEvent(log))
    /\ UNCHANGED <<snapshotTable, latestSnapshot, cacheBlockNumber, working, flag,
                   stopped, reorging, reorgPhase, reorgBlockNumber, reorgs>>

\* Reorg.checkEventsAndCommit finds the log missing below the latest stored
\* block: commit() supplements it, storage.block(), snapshots.reorg()
checkEventsAndCommit(log) ==
    /\ ~stopped
    /\ reorgPhase = "idle"
    /\ reorgs < MaxReorgs
    /\ log \notin storedEvents
    /\ storedEvents # {}
    /\ log.blockNumber <= SetMax({e.blockNumber : e \in storedEvents}) - 1
    /\ storedEvents' = storedEvents \cup {log}
    /\ reorgBlockNumber' = log.blockNumber
    /\ reorgPhase' = "snapshots"
    /\ reorging' = TRUE
    /\ snapshotsChannel' = Append(snapshotsChannel, Reorged(log.blockNumber))
    /\ reorgs' = reorgs + 1
    /\ UNCHANGED <<snapshotTable, latestSnapshot, cacheBlockNumber, working, flag,
                   stopped>>

\* fromDBEvent(event).log: blockNumber, blockHash, transactionIndex, address and
\* logIndex are taken from the row; transactionHash is not set
fromDBEvent(event) ==
    [blockNumber |-> event.blockNumber, transactionIndex |-> event.transactionIndex,
     logIndex |-> event.logIndex, transactionHash |-> FALSE]

\* calcId maps formatHexString over its string arguments, and
\* formatHexString(undefined) throws a TypeError
calcEventIdThrows(log) == ~log.transactionHash

\* the logs Storage.processLogs(logs, parsedLogs) emits newParsedEvent for: the
\* loop ends in the catch block at the first log whose id cannot be computed
RECURSIVE Reprocessed(_)
Reprocessed(batch) ==
    IF batch = <<>> THEN <<>>
    ELSE IF calcEventIdThrows(Head(batch)) THEN <<>>
    ELSE <<EventPosition(Head(batch))>> \o Reprocessed(Tail(batch))

\* Storage.reorg(reorgBlockNumber), then Reorg releases Storage
StorageReorg ==
    /\ reorgPhase = "storage"
    /\ LET events == EventsBetween(Number(reorgBlockNumber - 1), ToUndefined)
           batch == Reprocessed([i \in 1..Len(events) |-> fromDBEvent(events[i])])
           emitted == [i \in 1..Len(batch) |-> NewParsedEvent(batch[i])]
       IN  snapshotsChannel' = IF stopped THEN snapshotsChannel
                               ELSE snapshotsChannel \o emitted
    /\ reorgPhase' = "idle"
    /\ UNCHANGED <<storedEvents, snapshotTable, latestSnapshot, cacheBlockNumber,
                   working, flag, stopped, reorging, reorgBlockNumber, reorgs>>

Retained_DropsAll(table, threshold, last) ==
    table \ {row \in table : row.blockNumber <= threshold}

\* the rows left by the retention rule: the outdated rows go, but for the last
\* of them when all rows are outdated
Retained(table, threshold, last) ==
    LET outdatedSnapshots == {row \in table : row.blockNumber <= threshold}
    IN  IF outdatedSnapshots # {} /\ outdatedSnapshots = table
        THEN table \ (outdatedSnapshots \ {last})
        ELSE table \ outdatedSnapshots

messed_Never(log, latestPosition) == FALSE

\* Snapshots.work: const messed, the log sorts before the latest position
messed(log, latestPosition) ==
    \/ log.blockNumber < latestPosition.blockNumber
    \/ log.blockNumber = latestPosition.blockNumber
       /\ log.transactionIndex < latestPosition.transactionIndex
    \/ log.blockNumber = latestPosition.blockNumber
       /\ log.transactionIndex = latestPosition.transactionIndex
       /\ log.logIndex < latestPosition.logIndex

\* Snapshots.work, newParsedEvent branch; the statements of the persistence
\* transaction are taken to succeed, so its catch block (rollback) is not run
WorkNewParsedEvent ==
    /\ working = "idle"
    /\ snapshotsChannel # <<>>
    /\ Head(snapshotsChannel).type = "newParsedEvent"
    /\ snapshotsChannel' = Tail(snapshotsChannel)
    /\ IF ~latestSnapshot.defined
       THEN UNCHANGED <<snapshotTable, latestSnapshot, cacheBlockNumber>>
       ELSE LET log == Head(snapshotsChannel).log
                isMessed == messed(log, latestSnapshot.position)
                snapshot == processParsedLog(latestSnapshot.snapshot, log)
                position == IF isMessed THEN latestSnapshot.position ELSE EventPosition(log)
                table == IF isMessed THEN DestroyFrom(snapshotTable, log.blockNumber)
                         ELSE snapshotTable
            IN  /\ latestSnapshot' =
                     [defined |-> TRUE, snapshot |-> snapshot, position |-> position]
                /\ IF log.blockNumber - cacheBlockNumber >= interval
                   THEN /\ \E last \in {row \in table :
                                          \A o \in table : o.blockNumber <= row.blockNumber}
                                       \cup (IF table = {} THEN {Origin} ELSE {}) :
                              snapshotTable' =
                                  saveSnapshot(Retained(table, log.blockNumber - outdated, last),
                                               snapshot, position)
                        /\ cacheBlockNumber' = log.blockNumber
                   ELSE /\ snapshotTable' = table
                        /\ UNCHANGED cacheBlockNumber
    /\ UNCHANGED <<storedEvents, working, flag, stopped, reorging, reorgPhase,
                   reorgBlockNumber, reorgs>>

\* Snapshots.work, reorged branch up to the replay: the channel and the latest
\* snapshot are cleared and the rows from the reorged block on destroyed
WorkReorged ==
    /\ working = "idle"
    /\ snapshotsChannel # <<>>
    /\ Head(snapshotsChannel).type = "reorged"
    /\ snapshotsChannel' = <<>>
    /\ latestSnapshot' = NoLatest
    /\ snapshotTable' = DestroyFrom(snapshotTable, Head(snapshotsChannel).reorgBlockNumber)
    /\ working' = "replaying"
    /\ flag' = FALSE
    /\ UNCHANGED <<storedEvents, cacheBlockNumber, stopped, reorging, reorgPhase,
                   reorgBlockNumber, reorgs>>

\* the block the reorged branch regenerates the snapshot up to
ReorgTarget_Latest(blockNumber) ==
    Number(SetMax({0} \cup {e.blockNumber : e \in storedEvents}))

ReorgTarget(blockNumber) == Number(blockNumber - 1)

\* Snapshots.work, reorged branch from the replay on: getSnapshot, and in the
\* finally block the request is resolved, on which Reorg goes on
WorkReorgedReplay ==
    /\ working = "replaying"
    /\ LET result == getSnapshot(ReorgTarget(reorgBlockNumber), flag)
       IN  latestSnapshot' = IF result.threw THEN latestSnapshot
                     ELSE [defined |-> TRUE, snapshot |-> result.snapshot,
                           position |-> result.position]
    /\ working' = "idle"
    /\ flag' = FALSE
    /\ reorging' = FALSE
    /\ reorgPhase' = "storage"
    /\ UNCHANGED <<storedEvents, snapshotTable, snapshotsChannel, cacheBlockNumber, stopped,
                   reorgBlockNumber, reorgs>>

\* Channel.abort(): the pending messages are dropped; the message the worker
\* has taken already (the head, when the worker is not inside the reorged
\* branch) is still handled by it
abort(channel, taken) == IF taken /\ channel # <<>> THEN <<Head(channel)>> ELSE <<>>

\* Core.stop: the signal aborts, which a replay under way may or may not get
\* to see (fires), and Snapshots.onStop aborts the channel
Stop(fires) ==
    /\ ~stopped
    /\ fires => working = "replaying"
    /\ stopped' = TRUE
    /\ flag' = fires
    /\ snapshotsChannel' = abort(snapshotsChannel, working = "idle")
    /\ UNCHANGED <<storedEvents, snapshotTable, latestSnapshot, cacheBlockNumber, working,
                   reorging, reorgPhase, reorgBlockNumber, reorgs>>

\* ------------------------------------------------- the snapshot API Handler

\* sdk.ctx.chainId
chainId == 1

\* SnapshotErrorCode and JSONRPCErrorCode; NoError: no error thrown
Reorging == 100

Unavailable == 101

Generating == 102

NotFound == -32601

Internal == -32603

NoError == 0

\* snapshotId(chainId, position): `${chainId}-${blockNumber}` for a number,
\* `${chainId}-${blockNumber}-${transactionIndex}-${logIndex}` for a position;
\* the string is modelled as the sequence of its elements
snapshotId(chain, position) ==
    IF position.kind = "number" THEN <<chain, position.blockNumber>>
    ELSE <<chain, position.blockNumber, position.transactionIndex, position.logIndex>>

\* parseSnapshotId(id).blockNumber: parseInt(id.split('-')[1])
parseSnapshotId(id) ==
    IF Len(id) = 2 THEN [chainId |-> id[1], blockNumber |-> id[2]]
    ELSE [chainId |-> id[1], blockNumber |-> id[2], transactionIndex |-> id[3],
          logIndex |-> id[4]]

\* the `to` arguments clients ask snapshots for
GenerateTos == {Number(1), Number(2), Position(SnapshotLog(1, 1))}

\* params.id undefined
NoSnapshotId == <<>>

SnapshotIds == {snapshotId(chainId, to) : to \in GenerateTos} \cup {NoSnapshotId}

\* what a request is answered with: the error thrown or the value returned;
\* `request` numbers the requests in the order of their arrival
NoResponse ==
    [method |-> "none", request |-> 0, id |-> NoSnapshotId, error |-> NoError,
     result |-> "none", snapshot |-> NewSnapshot]

Thrown(method, request, id, code) ==
    [method |-> method, request |-> request, id |-> id, error |-> code,
     result |-> "error", snapshot |-> NewSnapshot]

Returned(method, request, id, result, snapshot) ==
    [method |-> method, request |-> request, id |-> id, error |-> NoError,
     result |-> result, snapshot |-> snapshot]

\* Map.has / Map.get / Map.set / Map.delete on generating and generated
Has(map, id) == \E entry \in map : entry.id = id

Get(map, id) == CHOOSE entry \in map : entry.id = id

Set(map, entry) == {other \in map : other.id # entry.id} \cup {entry}

Delete(map, id) == {entry \in map : entry.id # id}

\* Snapshots.getLatestSnapshot: false while reorging, else the latest snapshot,
\* which may be undefined
getLatestSnapshot_NoReorgCheck ==
    IF ~latestSnapshot.defined THEN "undefined" ELSE "snapshot"

getLatestSnapshot ==
    IF reorging THEN "false"
    ELSE IF ~latestSnapshot.defined THEN "undefined"
    ELSE "snapshot"

\* Handler.getSnapshotById(id), as called by the handler of `method`
getSnapshotById(method, request, id) ==
    IF id = NoSnapshotId
    THEN IF getLatestSnapshot = "false" THEN Thrown(method, request, id, Reorging)
         ELSE IF getLatestSnapshot = "undefined" THEN Thrown(method, request, id, Unavailable)
         ELSE Returned(method, request, id, "snapshot", latestSnapshot.snapshot)
    ELSE IF Has(generating, id) THEN Thrown(method, request, id, Generating)
    ELSE IF ~Has(generated, id) THEN Thrown(method, request, id, NotFound)
    ELSE Returned(method, request, id, "snapshot", Get(generated, id).snapshot)

InitHandler ==
    /\ generating = {}
    /\ generated = {}
    /\ requests = 0
    /\ response = NoResponse

\* Handler.handleQueryAccount / handleQueryAMM up to the snapshot lookup
handleQuery(id) ==
    /\ requests < MaxRequests
    /\ requests' = requests + 1
    /\ response' = getSnapshotById("query", requests', id)
    /\ UNCHANGED <<generating, generated>>

\* Handler.handleGenerateSnapshot up to the call of getSnapshot
handleGenerateSnapshot_NoGeneratingCheck(to) ==
    /\ requests < MaxRequests
    /\ requests' = requests + 1
    /\ LET snapId == snapshotId(chainId, to)
       IN  IF Has(generated, snapId)
           THEN /\ response' = Returned("generateSnapshot", requests', snapId, "id", NewSnapshot)
                /\ UNCHANGED <<generating, generated>>
           ELSE /\ generating' = Set(generating, [id |-> snapId, to |-> to, aborted |-> FALSE,
                                                  request |-> requests'])
                /\ UNCHANGED <<generated, response>>

handleGenerateSnapshot(to) ==
    /\ requests < MaxRequests
    /\ requests' = requests + 1
    /\ LET snapId == snapshotId(chainId, to)
       IN  IF Has(generating, snapId)
           THEN /\ response' = Thrown("generateSnapshot", requests', snapId, Generating)
                /\ UNCHANGED <<generating, generated>>
           ELSE IF Has(generated, snapId)
           THEN /\ response' = Returned("generateSnapshot", requests', snapId, "id", NewSnapshot)
                /\ UNCHANGED <<generating, generated>>
           ELSE /\ generating' = Set(generating, [id |-> snapId, to |-> to, aborted |-> FALSE,
                                                  request |-> requests'])
                /\ UNCHANGED <<generated, response>>

\* the signal of the request aborts: the client disconnected or the server
\* is closing
Disconnect(id) ==
    /\ Has(generating, id)
    /\ ~Get(generating, id).aborted
    /\ generating' = Set(generating, [Get(generating, id) EXCEPT !.aborted = TRUE])
    /\ UNCHANGED <<generated, requests, response>>

\* Handler.handleGenerateSnapshot from the result of getSnapshot on: the
\* snapshot is kept under snapId and under the id of the position the replay
\* ended at, and the finally block deletes the generating entry
GenerateSettled(id) ==
    /\ Has(generating, id)
    /\ LET entry == Get(generating, id)
           result == getSnapshot(entry.to, entry.aborted)
           underlyingSnapId == snapshotId(chainId, Position(result.position))
           kept == [id |-> id, snapshot |-> result.snapshot, origin |-> id]
       IN  IF result.threw
           THEN /\ response' = Thrown("generateSnapshot", entry.request, id, Internal)
                /\ UNCHANGED generated
           ELSE /\ generated' = Set(Set(generated, kept),
                                    [kept EXCEPT !.id = underlyingSnapId])
                /\ response' =
                     Returned("generateSnapshot", entry.request, id, "id", NewSnapshot)
    /\ generating' = Delete(generating, id)
    /\ UNCHANGED requests

\* Handler.handleClearSnapshot(id): every entry holding the same Snapshot
\* object goes
handleClearSnapshot(id) ==
    /\ requests < MaxRequests
    /\ requests' = requests + 1
    /\ IF ~Has(generated, id)
       THEN /\ response' = Returned("clearSnapshot", requests', id, "false", NewSnapshot)
            /\ UNCHANGED generated
       ELSE /\ generated' = {entry \in generated : entry.origin # Get(generated, id).origin}
            /\ response' = Returned("clearSnapshot", requests', id, "true", NewSnapshot)
    /\ UNCHANGED generating

\* Handler.handleListSnapshots: the ids of generated, parsed
handleListSnapshots == {parseSnapshotId(entry.id) : entry \in generated}

\* Handler.onReorged(reorgBlockNumber), the listener of the core's 'reorged'
\* event: what it makes of generating and generated
onReorged(blockNumber) ==
    [generating |->
        {IF parseSnapshotId(entry.id).blockNumber >= blockNumber
         THEN [entry EXCEPT !.aborted = TRUE] ELSE entry : entry \in generating},
     generated |->
        {entry \in generated : ~(parseSnapshotId(entry.id).blockNumber >= blockNumber)}]

\* --------------------------------------------------- JSON-RPC over WebSocket

\* the id of a message: a JSON string or a JSON number, or no id at all
StringId(n) == [type |-> "string", value |-> n]

NumberId(n) == [type |-> "number", value |-> n]

UndefinedId == [type |-> "undefined", value |-> 0]

\* JSONRPCWebSocket.genId: (this.id++).toString(); the counter starts at
\* Number.MIN_SAFE_INTEGER and is counted here from 1
genId(counter) == StringId(counter)

RpcNumbers == 1..MaxRpcRequests

\* what the remote end may send: results and errors under any id, and
\* messages without id
RpcMessages ==
    {[id |-> v, error |-> e] :
        v \in {StringId(n) : n \in RpcNumbers} \cup {NumberId(1), UndefinedId},
        e \in BOOLEAN}

\* a Promise: settled at most once, by the first resolve or reject
Pending == [state |-> "pending", reason |-> "none", id |-> UndefinedId]

settle(promise, state, reason, by) ==
    IF promise.state = "pending" THEN [state |-> state, reason |-> reason, id |-> by]
    ELSE promise

\* clearTimeout(timeOut)
clearTimeout(timer) == IF timer = "armed" THEN "cleared" ELSE timer

InitJsonRpc ==
    /\ rpcId = 1
    /\ rpcRequests = {}
    /\ timeOuts = [n \in RpcNumbers |-> "none"]
    /\ promises = [n \in RpcNumbers |-> Pending]
    /\ inbox = {}
    /\ closed = FALSE

\* JSONRPCWebSocket.request(method, params, timeOut)
request ==
    /\ rpcId <= MaxRpcRequests
    /\ rpcId' = rpcId + 1
    /\ inbox' = inbox \cup {genId(rpcId)}
    /\ rpcRequests' = rpcRequests \cup {genId(rpcId)}
    /\ timeOuts' = [timeOuts EXCEPT ![rpcId] = "armed"]
    /\ promises' = [promises EXCEPT ![rpcId] = Pending]
    /\ UNCHANGED closed

\* the timer of request n fires: reject(new Error('JSON RPC timeout'))
timeOut(n) ==
    /\ timeOuts[n] = "armed"
    /\ timeOuts' = [timeOuts EXCEPT ![n] = "fired"]
    /\ promises' = [promises EXCEPT ![n] = settle(@, "rejected", "timeout", UndefinedId)]
    /\ UNCHANGED <<rpcId, rpcRequests, inbox, closed>>

\* the request a response is handed to: this.requests.get(id)
requestOf_AnyPending(message) ==
    IF rpcRequests = {} THEN {} ELSE {CHOOSE key \in rpcRequests : TRUE}

requestOf(message) == {key \in rpcRequests : key = message.id}

\* JSONRPCWebSocket.onMessage(data)
onMessage(message) ==
    /\ ~closed
    /\ IF message.id # UndefinedId /\ requestOf(message) # {}
       THEN LET key == CHOOSE k \in requestOf(message) : TRUE
            IN  /\ timeOuts' = [timeOuts EXCEPT ![key.value] = clearTimeout(@)]
                /\ promises' =
                     [promises EXCEPT ![key.value] =
                         IF message.error THEN settle(@, "rejected", "error", message.id)
                         ELSE settle(@, "resolved", "result", message.id)]
                /\ rpcRequests' = rpcRequests \ {key}
       ELSE UNCHANGED <<timeOuts, promises, rpcRequests>>
    /\ UNCHANGED <<rpcId, inbox, closed>>

\* Handler.handle(msg): the id of the one response to a request; JSONRPC.parse
\* takes a message with a method for a request only if its id is truthy
handle(message) ==
    IF message.id.type = "undefined" \/ (message.id.type = "number" /\ message.id.value = 0)
    THEN UndefinedId ELSE message.id

\* the server handles a request it received and the client gets the response
Respond(key, error) ==
    /\ key \in inbox
    /\ inbox' = inbox \ {key}
    /\ IF closed THEN UNCHANGED <<rpcId, rpcRequests, timeOuts, promises, closed>>
       ELSE onMessage([id |-> handle([id |-> key]), error |-> error])

\* any other message of the remote end
Message(message) == onMessage(message) /\ UNCHANGED inbox

\* JSONRPCWebSocket.onLoss
onLoss ==
    /\ ~closed
    /\ timeOuts' = [n \in RpcNumbers |->
                       IF genId(n) \in rpcRequests THEN clearTimeout(timeOuts[n])
                       ELSE timeOuts[n]]
    /\ promises' = [n \in RpcNumbers |->
                       IF genId(n) \in rpcRequests
                       THEN settle(promises[n], "rejected", "loss connection", UndefinedId)
                       ELSE promises[n]]
    /\ rpcRequests' = {}
    /\ inbox' = {}
    /\ UNCHANGED <<rpcId, closed>>

\* JSONRPCWebSocket.stop
stop ==
    /\ ~closed
    /\ closed' = TRUE
    /\ timeOuts' = [n \in RpcNumbers |->
                       IF genId(n) \in rpcRequests THEN clearTimeout(timeOuts[n])
                       ELSE timeOuts[n]]
    /\ promises' = [n \in RpcNumbers |->
                       IF genId(n) \in rpcRequests
                       THEN settle(promises[n], "rejected", "JSON RPC closed", UndefinedId)
                       ELSE promises[n]]
    /\ rpcRequests' = {}
    /\ UNCHANGED <<rpcId, inbox>>

\* ------------------------------------------------- Storage.processLogs

\* the logs handed to Storage: the gate's NewInstrument log, a log of the
\* instrument, and a log of the instrument that instrumentInterface.parseLog
\* does not know
StorageLog(b, l, address, known) ==
    [blockNumber |-> b, transactionIndex |-> 0, logIndex |-> l, address |-> address,
     known |-> known]

StorageLogs ==
    {StorageLog(1, 0, Gate, TRUE), StorageLog(1, 1, Instrument, TRUE),
     StorageLog(2, 0, Instrument, FALSE)}

\* the block numbers a reconciliation of Reorg ranges over
StorageBlocks == {log.blockNumber : log \in StorageLogs}

\* the appliedBatches of newEvent
Batches == UNION {[1..n -> StorageLogs] : n \in 1..MaxBatch}

\* the row of a log: its id stands for calcEventId(chainId, address, blockHash,
\* transactionHash, logIndex); processed: status & EventStatus.PROCESSED
EventRow(log, processed) == [id |-> EventPosition(log), processed |-> processed]

\* events.findOne({ where: { id, blockNumber } })
Exists(rows, log) == \E row \in rows : row.id = EventPosition(log)

Processed(rows, log) == \E row \in rows : row.id = EventPosition(log) /\ row.processed

\* if (!reprocessing && exists) continue
Skips_Never(reprocessing, exists) == FALSE

Skips(reprocessing, exists) == ~reprocessing /\ exists

\* one round of the loop of Storage.processLogs on the transaction's state
ProcessLog(st, log, reprocessing) ==
    IF Skips(reprocessing, Exists(st.rows, log)) THEN st
    ELSE LET latest == IF log.blockNumber > st.latest THEN log.blockNumber ELSE st.latest
             processed == Processed(st.rows, log)
         IN  IF ~log.known THEN [st EXCEPT !.latest = latest]
             ELSE [rows |-> {row \in st.rows : row.id # EventPosition(log)}
                                \cup {EventRow(log, TRUE)},
                   instruments |-> IF log.address = Gate /\ ~processed
                                   THEN st.instruments \cup {Instrument}
                                   ELSE st.instruments,
                   handled |-> IF log.address = Gate THEN Append(st.handled, log)
                               ELSE st.handled,
                   parsed |-> Append(st.parsed, [log |-> log, processed |-> processed]),
                   latest |-> latest]

RECURSIVE ProcessLogs(_, _, _)
ProcessLogs(st, batch, reprocessing) ==
    IF batch = <<>> THEN st
    ELSE ProcessLogs(ProcessLog(st, Head(batch), reprocessing), Tail(batch), reprocessing)

InitStorage ==
    /\ eventRows = {}
    /\ instrumentRows = {}
    /\ storageCache = 0
    /\ handlerCalls = <<>>
    /\ parsedEvents = <<>>
    /\ storedBlockNumbers = <<>>
    /\ appliedBatches = <<>>
    /\ reconciled = [count |-> 0, from |-> 0, to |-> 0, logs |-> {}]

\* Storage.onNewEvent(logs) -> Storage.processLogs(logs), the transaction
\* committing
StorageProcessLogs(batch) ==
    /\ Len(appliedBatches) < MaxApplications
    /\ appliedBatches' = Append(appliedBatches, batch)
    /\ LET st == ProcessLogs([rows |-> eventRows, instruments |-> instrumentRows,
                              handled |-> handlerCalls, parsed |-> parsedEvents,
                              latest |-> storageCache], batch, FALSE)
           updated == storageCache # st.latest
       IN  /\ eventRows' = st.rows
           /\ instrumentRows' = st.instruments
           /\ handlerCalls' = st.handled
           /\ parsedEvents' = st.parsed
           /\ storageCache' = st.latest
           /\ storedBlockNumbers' = IF updated THEN Append(storedBlockNumbers, st.latest)
                                    ELSE storedBlockNumbers
    /\ UNCHANGED reconciled

\* Reorg.commit(needSave): a missed event is created, not yet processed
ReorgCommit(log) ==
    /\ log.known
    /\ ~Exists(eventRows, log)
    /\ eventRows' = eventRows \cup {EventRow(log, FALSE)}
    /\ UNCHANGED <<instrumentRows, storageCache, handlerCalls, parsedEvents,
                   storedBlockNumbers, appliedBatches, reconciled>>

\* Reorg.checkEvents: needDestroy; the stored events that the fetched logs
\* do not hold are never destroyed
needDestroy_Existed(existed) == existed

needDestroy(existed) == {}

\* Reorg.checkEvents(from, to): existed, the stored events of the range whose
\* id no fetched log has
existedRows(rows, from, to, fetched) ==
    {row \in rows :
        /\ from <= row.id.blockNumber /\ row.id.blockNumber <= to
        /\ \A log \in fetched : row.id # EventPosition(log)}

\* Reorg.checkEvents(from, to): needSave, the fetched logs whose id is not
\* stored and that parse
needSave(rows, from, to, fetched) ==
    {EventRow(log, FALSE) :
        log \in {l \in fetched :
                    /\ from <= l.blockNumber /\ l.blockNumber <= to
                    /\ ~Exists(rows, l)
                    /\ l.known}}

\* Reorg.commit(needSave, needDestroy): the rows when the transaction
\* commits, and the rows as they were when it fails
commit(rows, saved, destroyed, fails) ==
    IF fails THEN rows ELSE (rows \ destroyed) \cup saved

\* Reorg.checkEventsAndCommit(from, to) up to the commit, the node answering
\* getLogs with fetched
Reconcile(from, to, fetched, fails) ==
    /\ reconciled.count < MaxReconciliations
    /\ reconciled' = [count |-> reconciled.count + 1, from |-> from, to |-> to, logs |-> fetched]
    /\ eventRows' =
         commit(eventRows, needSave(eventRows, from, to, fetched),
                needDestroy(existedRows(eventRows, from, to, fetched)), fails)
    /\ UNCHANGED <<instrumentRows, storageCache, handlerCalls, parsedEvents,
                   storedBlockNumbers, appliedBatches>>
\* ------------------------- the Storage coroutine, blocked by the Reorg plugin

\* onNewEvent hands its logs to processLogs in slices of this size (1000 in
\* the source, scaled down)
sliceSize == 2

\* a log of the chain: its position is its block, and blockHash tells the
\* blocks of two forks apart, hence the ids of their events
ChainLog(b, blockHash) == [blockNumber |-> b, blockHash |-> blockHash]

NoLog == ChainLog(0, "")

ChainLogs == {ChainLog(1, "a"), ChainLog(1, "b"), ChainLog(2, "a")}

\* the batches of newEvent
NewEvents == UNION {[1..n -> ChainLogs] : n \in 1..MaxNewEvent}

\* _logs.slice(i, i + 1000) for i = 0, 1000, ...
RECURSIVE Slices(_)
Slices(batch) ==
    IF Len(batch) <= sliceSize THEN <<batch>>
    ELSE <<SubSeq(batch, 1, sliceSize)>> \o Slices(SubSeq(batch, sliceSize + 1, Len(batch)))

\* the unique index of the Event tables on (chainId, blockNumber,
\* transactionIndex, logIndex): the row cannot be created
Conflicts(rows, log) ==
    \E row \in rows : row.blockNumber = log.blockNumber /\ row # log

\* the loop of Storage.processLogs(logs) over the first n logs, on the state of
\* its transaction: a stored log is skipped; a new one is created, which the
\* unique index may refuse, and newParsedEvent is emitted for it at once
RECURSIVE RunLogs(_, _, _)
RunLogs(tx, batch, n) ==
    IF n = 0 \/ batch = <<>> \/ tx.threw THEN tx
    ELSE LET log == Head(batch)
             next ==
                IF log \in tx.rows THEN tx
                ELSE IF Conflicts(tx.rows, log)
                THEN [tx EXCEPT !.threw = TRUE]
                ELSE [rows |-> tx.rows \cup {log},
                      emitted |-> Append(tx.emitted, log),
                      latest |-> IF log.blockNumber > tx.latest THEN log.blockNumber
                                 ELSE tx.latest,
                      threw |-> FALSE]
         IN  RunLogs(next, Tail(batch), n - 1)

InitCoroutine ==
    /\ phase = "init"
    /\ processing = FALSE
    /\ blocked = FALSE
    /\ blocking = FALSE
    /\ storageAt = "idle"
    /\ pendingChunks = <<>>
    /\ committedRows = {}
    /\ committedBlockNumber = 0
    /\ cacheInMemory = 0
    /\ deliveries = <<>>
    /\ reorgAt = "idle"
    /\ missed = NoLog
    /\ noopHandle = FALSE
    /\ reorgSteps = <<>>
    /\ coreStopped = FALSE
    /\ failures = 0
    /\ arrivals = 0
    /\ recoveries = 0
    /\ restarts = 0

storageFields == <<processing, storageAt, pendingChunks>>

databaseVars == <<committedRows, committedBlockNumber, cacheInMemory, deliveries>>

reorgFields == <<reorgAt, missed, noopHandle, reorgSteps, recoveries>>

\* Core.init has completed and Core.start has run: the listeners are on and the
\* Snapshots worker runs
CoreStart ==
    /\ phase = "init"
    /\ reorgAt = "idle"
    /\ ~coreStopped
    /\ phase' = "running"
    /\ UNCHANGED <<storageFields, blocked, blocking, databaseVars, reorgFields,
                   coreStopped, failures, arrivals, restarts>>

\* Source emits newEvent(batch): Storage.onNewEvent starts
StorageOnNewEvent(batch) ==
    /\ phase = "running"
    /\ ~coreStopped
    /\ storageAt = "idle"
    /\ arrivals < MaxArrivals
    /\ arrivals' = arrivals + 1
    /\ processing' = TRUE
    /\ pendingChunks' = Slices(batch)
    /\ storageAt' = "loop"
    /\ UNCHANGED <<phase, blocked, blocking, databaseVars, reorgFields, coreStopped,
                   failures, restarts>>

\* the head of the loop of onNewEvent: the loop ends, or waits for the block to
\* be released after telling the blocker, or hands the slice to processLogs
LoopHead ==
    /\ storageAt = "loop"
    /\ IF pendingChunks = <<>> \/ coreStopped
       THEN /\ processing' = FALSE
            /\ pendingChunks' = <<>>
            /\ storageAt' = "idle"
            /\ UNCHANGED <<reorgAt, reorgSteps>>
       ELSE IF blocking
       THEN /\ storageAt' = "awaiting"
            /\ reorgAt' = IF blocked /\ reorgAt = "waiting" THEN "snapshots" ELSE reorgAt
            /\ reorgSteps' = IF blocked /\ reorgAt = "waiting"
                             THEN Append(reorgSteps, "block") ELSE reorgSteps
            /\ UNCHANGED <<processing, pendingChunks>>
       ELSE /\ storageAt' = "processLogs"
            /\ UNCHANGED <<processing, pendingChunks, reorgAt, reorgSteps>>
    /\ UNCHANGED <<phase, blocked, blocking, databaseVars, missed, noopHandle, recoveries,
                   coreStopped, failures, arrivals, restarts>>

\* await this.blocking returns: the slice goes to processLogs
Resume ==
    /\ storageAt = "awaiting"
    /\ ~blocking
    /\ storageAt' = "processLogs"
    /\ UNCHANGED <<phase, processing, pendingChunks, blocked, blocking, databaseVars,
                   reorgFields, coreStopped, failures, arrivals, restarts>>

\* the state the transaction of processLogs starts from
Transaction ==
    [rows |-> committedRows, emitted |-> <<>>, latest |-> cacheInMemory, threw |-> FALSE]

\* Storage.processLogs(slice) ends. With failsAt <= Len(slice) the database
\* fails after that many logs, at cache.save or commit when all were handled;
\* a failed run is rolled back and, unless the process has stopped, retried
\* after the backoff
ProcessLogsEnds(failsAt) ==
    /\ storageAt = "processLogs"
    /\ LET slice == Head(pendingChunks)
           transient == failsAt <= Len(slice)
           tx == RunLogs(Transaction, slice, IF transient THEN failsAt ELSE Len(slice))
           failed == tx.threw \/ transient
           assigned == ~tx.threw /\ (~transient \/ failsAt = Len(slice))
       IN  /\ transient /\ ~tx.threw => failures < MaxFailures
           /\ failures' = IF transient /\ ~tx.threw THEN failures + 1 ELSE failures
           /\ deliveries' = deliveries \o tx.emitted
           /\ cacheInMemory' = IF assigned THEN tx.latest ELSE cacheInMemory
           /\ committedRows' = IF failed THEN committedRows ELSE tx.rows
           /\ committedBlockNumber' = IF failed THEN committedBlockNumber ELSE tx.latest
           /\ IF ~failed
              THEN /\ pendingChunks' = Tail(pendingChunks)
                   /\ storageAt' = "loop"
              ELSE IF coreStopped
              THEN /\ pendingChunks' = Tail(pendingChunks)
                   /\ storageAt' = "loop"
              ELSE /\ pendingChunks' = pendingChunks
                   /\ storageAt' = "backoff"
    /\ UNCHANGED <<phase, processing, blocked, blocking, reorgFields, coreStopped,
                   arrivals, restarts>>

\* the backoff is over: processLogs is applied to the same slice again
Retry ==
    /\ storageAt = "backoff"
    /\ Len(deliveries) < MaxDeliveries
    /\ storageAt' = "processLogs"
    /\ UNCHANGED <<phase, processing, pendingChunks, blocked, blocking, databaseVars,
                   reorgFields, coreStopped, failures, arrivals, restarts>>

\* Reorg.checkEvents finds a log of the node below the latest stored block that
\* the store does not hold, and Reorg.commit begins its transaction
ReorgFinds(log) ==
    /\ reorgAt = "idle"
    /\ ~coreStopped
    /\ recoveries < MaxRecoveries
    /\ log \notin committedRows
    /\ log.blockNumber <= cacheInMemory - 1
    /\ recoveries' = recoveries + 1
    /\ missed' = log
    /\ reorgAt' = "commit"
    /\ reorgSteps' = <<>>
    /\ UNCHANGED <<phase, storageFields, blocked, blocking, databaseVars, noopHandle,
                   coreStopped, failures, arrivals, restarts>>

\* Reorg.commit ends: events.create has stored the missed event, or has thrown,
\* in which case the retries throw as well and the check gives up
ReorgCommitEnds ==
    /\ reorgAt = "commit"
    /\ IF missed \in committedRows \/ Conflicts(committedRows, missed)
       THEN /\ reorgAt' = "idle"
            /\ UNCHANGED committedRows
       ELSE /\ reorgAt' = "block"
            /\ committedRows' = committedRows \cup {missed}
    /\ UNCHANGED <<phase, storageFields, blocked, blocking, committedBlockNumber,
                   cacheInMemory, deliveries, missed, noopHandle, reorgSteps, recoveries,
                   coreStopped, failures, arrivals, restarts>>

\* Storage.block(), called by Reorg.checkEventsAndCommit
ReorgBlock ==
    /\ reorgAt = "block"
    /\ IF coreStopped
       THEN /\ noopHandle' = TRUE
            /\ reorgAt' = "snapshots"
            /\ reorgSteps' = Append(reorgSteps, "block")
            /\ UNCHANGED <<blocked, blocking>>
       ELSE IF blocked \/ blocking
       THEN /\ reorgAt' = "idle"
            /\ reorgSteps' = Append(reorgSteps, "invalid block")
            /\ UNCHANGED <<blocked, blocking, noopHandle>>
       ELSE /\ blocking' = TRUE
            /\ blocked' = processing
            /\ reorgAt' = IF processing THEN "waiting" ELSE "snapshots"
            /\ reorgSteps' = IF processing THEN reorgSteps ELSE Append(reorgSteps, "block")
            /\ UNCHANGED noopHandle
    /\ UNCHANGED <<phase, storageFields, databaseVars, missed, recoveries, coreStopped,
                   failures, arrivals, restarts>>

\* Snapshots.reorg(R) resolves: the worker, which Snapshots.onStart starts,
\* has handled the reorged message. Snapshots.onStop aborts the channel, which
\* drops the message of a later call, so that its promise stays pending
ReorgSnapshots ==
    /\ reorgAt = "snapshots"
    /\ phase = "running"
    /\ ~coreStopped
    /\ reorgAt' = "storage"
    /\ reorgSteps' = Append(reorgSteps, "snapshots")
    /\ UNCHANGED <<phase, storageFields, blocked, blocking, databaseVars, missed,
                   noopHandle, recoveries, coreStopped, failures, arrivals, restarts>>

\* the finally block of checkEventsAndCommit is missing: a throw of
\* Storage.reorg(R) leaves Storage blocked
ReorgStorage_NoFinally(throws) ==
    /\ reorgAt = "storage"
    /\ reorgAt' = "idle"
    /\ reorgSteps' = reorgSteps \o (IF throws THEN <<"storage threw">>
                                    ELSE <<"storage", "release">>)
    /\ blocking' = IF noopHandle \/ throws THEN blocking ELSE FALSE
    /\ blocked' = IF noopHandle \/ throws THEN blocked ELSE FALSE
    /\ noopHandle' = FALSE
    /\ UNCHANGED <<phase, storageFields, databaseVars, missed, recoveries, coreStopped,
                   failures, arrivals, restarts>>

\* Storage.reorg(R) returns or throws, and the finally block releases Storage
ReorgStorage(throws) ==
    /\ reorgAt = "storage"
    /\ reorgAt' = "idle"
    /\ reorgSteps' = reorgSteps \o <<IF throws THEN "storage threw" ELSE "storage", "release">>
    /\ blocking' = IF noopHandle THEN blocking ELSE FALSE
    /\ blocked' = IF noopHandle THEN blocked ELSE FALSE
    /\ noopHandle' = FALSE
    /\ UNCHANGED <<phase, storageFields, databaseVars, missed, recoveries, coreStopped,
                   failures, arrivals, restarts>>

\* Core.stop: the plugins see stopped, Storage.onStop removes its listeners
CoreStop ==
    /\ phase = "running"
    /\ ~coreStopped
    /\ coreStopped' = TRUE
    /\ UNCHANGED <<phase, storageFields, blocked, blocking, databaseVars, reorgFields,
                   failures, arrivals, restarts>>

\* the process ends and a new one starts on the database it left
Restart ==
    /\ coreStopped
    /\ restarts < MaxRestarts
    /\ restarts' = restarts + 1
    /\ phase' = "init"
    /\ processing' = FALSE
    /\ blocked' = FALSE
    /\ blocking' = FALSE
    /\ storageAt' = "idle"
    /\ pendingChunks' = <<>>
    /\ cacheInMemory' = committedBlockNumber
    /\ deliveries' = <<>>
    /\ reorgAt' = "idle"
    /\ missed' = NoLog
    /\ noopHandle' = FALSE
    /\ reorgSteps' = <<>>
    /\ coreStopped' = FALSE
    /\ UNCHANGED <<committedRows, committedBlockNumber, failures, arrivals, recoveries>>

\* ------------------------------------------- WebSocket: keep alive, reconnect

\* the subscribers that send eth_subscribe on every 'connected' event
Subscribers == {"logs", "newHeads"}

InitWebSocket ==
    /\ ws = "none"
    /\ wsConnected = FALSE
    /\ closing = FALSE
    /\ reconnecting = FALSE
    /\ keepAlive = FALSE
    /\ socketClosing = FALSE
    /\ closedListener = FALSE
    /\ ethSubscribe = [s \in Subscribers |-> "none"]
    /\ wsStarted = FALSE
    /\ disconnected = FALSE
    /\ lastEmitted = "none"

\* a rejected promise runs its catch handler as a microtask, before any timer
\* or socket event is handled
Microtask == \E s \in Subscribers : ethSubscribe[s] = "rejected"

\* WebSocket._reconnect(): arm the reconnect timer unless closing or armed
\* (the value of this.reconnecting after the call)
_reconnect(isClosing, timer) == IF ~isClosing /\ ~timer THEN TRUE ELSE timer

\* WebSocket.connect(): a new socket, not yet open
connect ==
    /\ ws = "none"
    /\ ws' = "connecting"
    /\ socketClosing' = FALSE

\* JSONRPCWebSocket.start()
start ==
    /\ ~wsStarted
    /\ wsStarted' = TRUE
    /\ connect
    /\ UNCHANGED <<wsConnected, closing, reconnecting, keepAlive, closedListener, ethSubscribe,
                   disconnected, lastEmitted>>

\* the closure reconnect of connect(): off(), terminate, and if this.ws is
\* still this socket: clear it, _reconnect(), emit 'closed'; the once listener
\* of the public reconnect() clears closing and calls _reconnect() again
terminate ==
    /\ ws' = "none"
    /\ wsConnected' = FALSE
    /\ keepAlive' = FALSE
    /\ socketClosing' = FALSE
    /\ closing' = IF closedListener THEN FALSE ELSE closing
    /\ reconnecting' =
         LET armed == _reconnect(closing, reconnecting)
         IN  IF closedListener THEN _reconnect(FALSE, armed) ELSE armed
    /\ closedListener' = FALSE

\* the 'open' event of the socket: mark connected, emit 'connected'; each
\* subscriber's onConnected sends its eth_subscribe request
onOpen ==
    /\ ~Microtask
    /\ ws = "connecting" /\ ~socketClosing
    /\ ws' = "open"
    /\ wsConnected' = TRUE
    /\ lastEmitted' = "connected"
    /\ ethSubscribe' = [s \in Subscribers |-> "pending"]
    /\ UNCHANGED <<closing, reconnecting, keepAlive, socketClosing, closedListener, wsStarted,
                   disconnected>>

\* the 'close' event of the socket
onClose ==
    /\ ~Microtask
    /\ ws # "none"
    /\ terminate
    /\ lastEmitted' = "closed"
    /\ UNCHANGED <<ethSubscribe, wsStarted, disconnected>>

\* the 'error' event of the socket
onError ==
    /\ ~Microtask
    /\ ws # "none"
    /\ terminate
    /\ lastEmitted' = "closed"
    /\ UNCHANGED <<ethSubscribe, wsStarted, disconnected>>

\* the keep alive interval fires: ping and arm the time-out unless it is armed
onInterval ==
    /\ ~Microtask
    /\ ws = "open" /\ ~keepAlive
    /\ keepAlive' = TRUE
    /\ UNCHANGED <<ws, wsConnected, closing, reconnecting, socketClosing, closedListener,
                   ethSubscribe, wsStarted, disconnected, lastEmitted>>

\* the 'pong' event of the socket: clear the time-out
onPong ==
    /\ ~Microtask
    /\ ws = "open" /\ keepAlive
    /\ keepAlive' = FALSE
    /\ UNCHANGED <<ws, wsConnected, closing, reconnecting, socketClosing, closedListener,
                   ethSubscribe, wsStarted, disconnected, lastEmitted>>

\* JSONRPCWebSocket.onLoss: reject every pending request (the listener is
\* removed by stop())
rejectOnLoss(pending) ==
    [s \in Subscribers |->
        IF pending[s] = "pending" /\ ~disconnected THEN "rejected" ELSE pending[s]]

\* the keep alive time-out fires: emit 'loss', then the closure reconnect
keepAliveTimeOut ==
    /\ ~Microtask
    /\ ws = "open" /\ keepAlive
    /\ lastEmitted' = "loss"
    /\ ethSubscribe' = rejectOnLoss(ethSubscribe)
    /\ terminate
    /\ UNCHANGED <<wsStarted, disconnected>>

\* the reconnect timer fires
reconnectTimer ==
    /\ ~Microtask
    /\ reconnecting
    /\ reconnecting' = FALSE
    /\ IF ~closing THEN connect ELSE UNCHANGED <<ws, socketClosing>>
    /\ UNCHANGED <<wsConnected, closing, keepAlive, closedListener, ethSubscribe, wsStarted,
                   disconnected, lastEmitted>>

\* WebSocket.disconnect(): the values of closing, of the close request to the
\* socket and of the reconnect timer after the call
disconnect ==
    IF ~closing
    THEN /\ closing' = TRUE
         /\ socketClosing' = (socketClosing \/ ws # "none")
         /\ reconnecting' = FALSE
    ELSE UNCHANGED <<closing, socketClosing, reconnecting>>

\* WebSocket.reconnect(): disconnect, and reconnect once 'closed' is emitted
reconnect ==
    /\ disconnect
    /\ closedListener' = (closedListener \/ ~closing)

\* LogSubscriber.add while connected: a further eth_subscribe request
add ==
    /\ ~Microtask
    /\ ws = "open" /\ wsConnected /\ ~disconnected
    /\ ethSubscribe["logs"] = "none"
    /\ ethSubscribe' = [ethSubscribe EXCEPT !["logs"] = "pending"]
    /\ UNCHANGED <<ws, wsConnected, closing, reconnecting, keepAlive, socketClosing,
                   closedListener, wsStarted, disconnected, lastEmitted>>

\* the node answers the request of subscriber s, with a result or an error
onResponse(s, failed) ==
    /\ ~Microtask
    /\ ws = "open" /\ ethSubscribe[s] = "pending"
    /\ ethSubscribe' = [ethSubscribe EXCEPT ![s] = IF failed THEN "rejected" ELSE "none"]
    /\ UNCHANGED <<ws, wsConnected, closing, reconnecting, keepAlive, socketClosing,
                   closedListener, wsStarted, disconnected, lastEmitted>>

\* the timer of the request of subscriber s fires: 'JSON RPC timeout'
onRequestTimeOut(s) ==
    /\ ~Microtask
    /\ ethSubscribe[s] = "pending"
    /\ ethSubscribe' = [ethSubscribe EXCEPT ![s] = "rejected"]
    /\ UNCHANGED <<ws, wsConnected, closing, reconnecting, keepAlive, socketClosing,
                   closedListener, wsStarted, disconnected, lastEmitted>>

\* the catch handler of a failed eth_subscribe request: this.jsonrpc.ws.reconnect()
onSubscribeFailed(s) ==
    /\ ethSubscribe[s] = "rejected"
    /\ ethSubscribe' = [ethSubscribe EXCEPT ![s] = "none"]
    /\ reconnect
    /\ UNCHANGED <<ws, wsConnected, keepAlive, wsStarted, disconnected, lastEmitted>>

\* JSONRPCWebSocket.stop(), called by the owner: disconnect and reject every
\* pending request
stopWebSocket ==
    /\ ~Microtask
    /\ wsStarted /\ ~disconnected
    /\ disconnected' = TRUE
    /\ disconnect
    /\ ethSubscribe' =
         [s \in Subscribers |-> IF ethSubscribe[s] = "pending" THEN "rejected" ELSE ethSubscribe[s]]
    /\ UNCHANGED <<ws, wsConnected, keepAlive, closedListener, wsStarted, lastEmitted>>

\* ------------------------------------------------ Events: sub-table models

\* Events.init: the last index of the loop `index <= 29`
lastSyncedIndex == 29

\* "sync up to 30 sub tables"
subTablesAhead == 30

InitSubTables ==
    /\ models = {}
    /\ indexCount = 0
    /\ initializing = FALSE
    /\ unknownModel = FALSE
    /\ sinceInit = 0
    /\ inits = 0

\* Events.syncModel(indexOfEventIndex): define the model and create the table
\* if it does not exist
syncModel(known, indexOfEventIndex) == known \cup {indexOfEventIndex}

\* the indexes init() calls syncModel with: those of the EventIndex rows, and
\* from the last of them (or 0) up to lastSyncedIndex
SyncedByInit(count) ==
    {k \in 0..(count - 1) : TRUE}
        \cup {k \in 0..lastSyncedIndex : k >= (IF count > 0 THEN count - 1 ELSE 0)}

\* Events.init()
init ==
    /\ ~initializing
    /\ inits < MaxInits
    /\ inits' = inits + 1
    /\ initializing' = TRUE
    /\ models' = UNION {syncModel(models, k) : k \in SyncedByInit(indexCount)}
    /\ UNCHANGED <<indexCount, unknownModel, sinceInit>>

\* Events.getModel(index): throws 'unknown model' without a model of the index
getModel(index) == index \in models

\* Events.create(event, options) when it allocates a sub-table: the EventIndex
\* row is created with index = this.indexes.length, and getModel looks up its
\* model; when getModel throws, the row stays unless the caller's transaction
\* takes it back
Allocate(transactional) ==
    /\ initializing /\ ~unknownModel
    /\ indexCount < MaxSubTables
    /\ IF getModel(indexCount)
       THEN /\ indexCount' = indexCount + 1
            /\ sinceInit' = sinceInit + 1
            /\ UNCHANGED unknownModel
       ELSE /\ unknownModel' = TRUE
            /\ indexCount' = IF transactional THEN indexCount ELSE indexCount + 1
            /\ UNCHANGED sinceInit
    /\ UNCHANGED <<models, initializing, inits>>

\* the process ends and starts again: a new Events instance
RestartEvents ==
    /\ initializing
    /\ inits < MaxInits
    /\ models' = {}
    /\ initializing' = FALSE
    /\ unknownModel' = FALSE
    /\ sinceInit' = 0
    /\ UNCHANGED <<indexCount, inits>>

\* ------------------------------------------------------ Blocks.getBlock

Callers == 1..MaxCallers

BlockKeys == 1..MaxKeys

\* no entry in this.locks
NoLock == [entry |-> FALSE, ref |-> 0, permits |-> 0, queue |-> <<>>]

\* { sempaphore: new Semaphore(1), ref: 0 }
NewLock == [entry |-> TRUE, ref |-> 0, permits |-> 1, queue |-> <<>>]

InitBlocks ==
    /\ blockCache = {}
    /\ locks = [n \in BlockKeys |-> NoLock]
    /\ callerAt = [c \in Callers |-> "idle"]
    /\ callerKey = [c \in Callers |-> 1]
    /\ returned = [c \in Callers |-> "none"]
    /\ blockCalls = 0

\* Semaphore.acquire(): take a permit, or queue behind the holders
acquire_NoWait(l, c) == [l EXCEPT !.permits = 0]

acquire(l, c) ==
    IF l.permits > 0 THEN [l EXCEPT !.permits = @ - 1]
    ELSE [l EXCEPT !.queue = Append(@, c)]

\* Semaphore.release(): hand the permit to the first waiter, or put it back
release(l) ==
    IF l.queue # <<>> THEN [l EXCEPT !.queue = Tail(@)]
    ELSE [l EXCEPT !.permits = @ + 1]

\* the finally block of getBlock: release, and delete the entry once
\* --lock.ref is 0
finally(l) ==
    LET released == release(l)
    IN  IF released.ref - 1 = 0 THEN NoLock ELSE [released EXCEPT !.ref = @ - 1]

\* Blocks.getBlock(blockNumber) up to the await of acquire()
getBlock(c, n) ==
    /\ callerAt[c] = "idle"
    /\ blockCalls < MaxCalls
    /\ blockCalls' = blockCalls + 1
    /\ callerKey' = [callerKey EXCEPT ![c] = n]
    /\ IF n \in blockCache
       THEN /\ returned' = [returned EXCEPT ![c] = "hit"]
            /\ UNCHANGED <<locks, callerAt>>
       ELSE LET l == IF locks[n].entry THEN locks[n] ELSE NewLock
                counted == [l EXCEPT !.ref = @ + 1]
                waits == acquire(counted, c).queue # counted.queue
            IN  /\ locks' = [locks EXCEPT ![n] = acquire(counted, c)]
                /\ callerAt' = [callerAt EXCEPT ![c] = IF waits THEN "waiting" ELSE "acquired"]
                /\ returned' = [returned EXCEPT ![c] = IF waits THEN "waiting" ELSE "none"]
    /\ UNCHANGED blockCache

\* the callers a release() of the lock wakes
Woken(l) == IF l.queue # <<>> THEN {Head(l.queue)} ELSE {}

\* getBlock from the acquired permit on: with the block in the cache, return
\* it and run the finally block; else ask the provider
Acquired(c) ==
    /\ callerAt[c] = "acquired"
    /\ LET n == callerKey[c]
       IN  IF n \in blockCache
           THEN /\ locks' = [locks EXCEPT ![n] = finally(@)]
                /\ callerAt' = [k \in Callers |->
                                  IF k = c THEN "idle"
                                  ELSE IF k \in Woken(locks[n]) THEN "acquired"
                                  ELSE callerAt[k]]
                /\ returned' = [returned EXCEPT ![c] =
                                   IF @ = "waiting" THEN "waited" ELSE "cached"]
           ELSE /\ callerAt' = [callerAt EXCEPT ![c] = "fetching"]
                /\ UNCHANGED <<locks, returned>>
    /\ UNCHANGED <<blockCache, callerKey, blockCalls>>

\* the provider answers, or ctx.retry gives up: cache.set and return, or
\* throw; then the finally block
FetchEnds(c, fails) ==
    /\ callerAt[c] = "fetching"
    /\ LET n == callerKey[c]
       IN  /\ blockCache' = IF fails THEN blockCache ELSE blockCache \cup {n}
           /\ locks' = [locks EXCEPT ![n] = finally(@)]
           /\ callerAt' = [k \in Callers |->
                             IF k = c THEN "idle"
                             ELSE IF k \in Woken(locks[n]) THEN "acquired"
                             ELSE callerAt[k]]
           /\ returned' = [returned EXCEPT ![c] = IF fails THEN "threw" ELSE "fetched"]
    /\ UNCHANGED <<callerKey, blockCalls>>

\* the LRU cache drops the block while no call for it is under way
Evict(n) ==
    /\ n \in blockCache
    /\ ~locks[n].entry
    /\ blockCache' = blockCache \ {n}
    /\ UNCHANGED <<locks, callerAt, callerKey, returned, blockCalls>>
\* ---------------------------------------------------------- specifications

\* the variables an operation of one component leaves alone
exceptEvents == <<sourceVars, snapshotsVars, handlerVars, jsonRpcVars, storageProcessVars,
      coroutineVars, webSocketVars, subTableVars, blocksVars>>

exceptSource == <<eventsVars, snapshotsVars, handlerVars, jsonRpcVars, storageProcessVars,
      coroutineVars, webSocketVars, subTableVars, blocksVars>>

exceptSnapshots == <<eventsVars, sourceVars, handlerVars, jsonRpcVars, storageProcessVars,
      coroutineVars, webSocketVars, subTableVars, blocksVars>>

exceptHandler == <<eventsVars, sourceVars, snapshotsVars, jsonRpcVars, storageProcessVars,
      coroutineVars, webSocketVars, subTableVars, blocksVars>>

exceptJsonRpc == <<eventsVars, sourceVars, snapshotsVars, handlerVars, storageProcessVars,
      coroutineVars, webSocketVars, subTableVars, blocksVars>>

exceptCoroutine ==
    <<eventsVars, sourceVars, snapshotsVars, handlerVars, jsonRpcVars, storageProcessVars,
      webSocketVars, subTableVars, blocksVars>>

exceptWebSocket ==
    <<eventsVars, sourceVars, snapshotsVars, handlerVars, jsonRpcVars, storageProcessVars,
      coroutineVars, subTableVars, blocksVars>>

exceptSubTables ==
    <<eventsVars, sourceVars, snapshotsVars, handlerVars, jsonRpcVars, storageProcessVars,
      coroutineVars, webSocketVars, blocksVars>>

exceptBlocks ==
    <<eventsVars, sourceVars, snapshotsVars, handlerVars, jsonRpcVars, storageProcessVars,
      coroutineVars, webSocketVars, subTableVars>>

exceptStorage == <<eventsVars, sourceVars, snapshotsVars, handlerVars, jsonRpcVars,
      coroutineVars, webSocketVars, subTableVars, blocksVars>>

Init ==
    /\ InitEvents /\ InitSource /\ InitSnapshots /\ InitHandler /\ InitJsonRpc /\ InitStorage
    /\ InitCoroutine /\ InitWebSocket /\ InitSubTables /\ InitBlocks

NextEvents ==
    \/ \E event \in AllEvents : Create(event) /\ UNCHANGED exceptEvents
    \/ \E cond \in DestroyConditions : DestroyOne(cond) /\ UNCHANGED exceptEvents
    \/ Begin /\ UNCHANGED exceptEvents
    \/ Commit /\ UNCHANGED exceptEvents
    \/ Rollback /\ UNCHANGED exceptEvents

SpecEvents == Init /\ [][NextEvents]_vars

NextSource ==
    \/ \E content \in SUBSET {Gate, Instrument} : Mine(content) /\ UNCHANGED exceptSource
    \/ Connect /\ UNCHANGED exceptSource
    \/ Loss /\ UNCHANGED exceptSource
    \/ Subscribed /\ UNCHANGED exceptSource
    \/ onNewLog /\ UNCHANGED exceptSource
    \/ processBlockNumbers /\ UNCHANGED exceptSource
    \/ processLogs /\ UNCHANGED exceptSource
    \/ SyncStart /\ UNCHANGED exceptSource
    \/ SyncFetched /\ UNCHANGED exceptSource
    \/ SyncResumed /\ UNCHANGED exceptSource
    \/ onStop /\ UNCHANGED exceptSource

SpecSource == Init /\ [][NextSource]_vars

\* the Source on a connection that stays up: one sync pass, the subscription,
\* the two consumers and the stop. The consumer of the log channel and a woken
\* sync loop are coroutines of the event loop that nothing else holds back
NextBackpressure ==
    \/ \E content \in SUBSET {Gate, Instrument} : Mine(content) /\ UNCHANGED exceptSource
    \/ Connect /\ UNCHANGED exceptSource
    \/ Subscribed /\ UNCHANGED exceptSource
    \/ onNewLog /\ UNCHANGED exceptSource
    \/ processBlockNumbers /\ UNCHANGED exceptSource
    \/ processLogs /\ UNCHANGED exceptSource
    \/ SyncStart /\ UNCHANGED exceptSource
    \/ SyncFetched /\ UNCHANGED exceptSource
    \/ SyncResumed /\ UNCHANGED exceptSource
    \/ onStop /\ UNCHANGED exceptSource

SpecBackpressure ==
    /\ Init
    /\ [][NextBackpressure]_vars
    /\ WF_vars(processLogs /\ UNCHANGED exceptSource)
    /\ WF_vars(SyncResumed /\ UNCHANGED exceptSource)

\* the Source plugin on a connection that stays up, beside a node whose chain
\* is reorganized
NextRemoved ==
    \/ \E content \in SUBSET {Gate, Instrument} : Mine(content) /\ UNCHANGED exceptSource
    \/ \E b \in 1..MaxHead : ChainReorg(b) /\ UNCHANGED exceptSource
    \/ Connect /\ UNCHANGED exceptSource
    \/ Subscribed /\ UNCHANGED exceptSource
    \/ onNewLog /\ UNCHANGED exceptSource
    \/ processBlockNumbers /\ UNCHANGED exceptSource
    \/ processLogs /\ UNCHANGED exceptSource
    \/ SyncStart /\ UNCHANGED exceptSource
    \/ SyncFetched /\ UNCHANGED exceptSource
    \/ SyncResumed /\ UNCHANGED exceptSource

SpecRemoved == Init /\ [][NextRemoved]_vars


NextSnapshots ==
    \/ \E log \in SnapshotLogs : onNewEvent(log) /\ UNCHANGED exceptSnapshots
    \/ \E log \in SnapshotLogs : checkEventsAndCommit(log) /\ UNCHANGED exceptSnapshots
    \/ StorageReorg /\ UNCHANGED exceptSnapshots
    \/ WorkNewParsedEvent /\ UNCHANGED exceptSnapshots
    \/ WorkReorged /\ UNCHANGED exceptSnapshots
    \/ WorkReorgedReplay /\ UNCHANGED exceptSnapshots
    \/ \E fires \in BOOLEAN : Stop(fires) /\ UNCHANGED exceptSnapshots

SpecSnapshots == Init /\ [][NextSnapshots]_vars

\* the worker of Snapshots handles the message it has taken
FairSnapshots ==
    /\ WF_vars(WorkNewParsedEvent /\ UNCHANGED exceptSnapshots)
    /\ WF_vars(WorkReorged /\ UNCHANGED exceptSnapshots)
    /\ WF_vars(WorkReorgedReplay /\ UNCHANGED exceptSnapshots)

SpecSnapshotsFair == SpecSnapshots /\ FairSnapshots

NextHandler ==
    \/ NextSnapshots
    \/ \E id \in SnapshotIds : handleQuery(id) /\ UNCHANGED exceptHandler
    \/ \E to \in GenerateTos :
          handleGenerateSnapshot(to) /\ UNCHANGED exceptHandler
    \/ \E id \in SnapshotIds : Disconnect(id) /\ UNCHANGED exceptHandler
    \/ \E id \in SnapshotIds :
          GenerateSettled(id) /\ UNCHANGED exceptHandler
    \/ \E id \in SnapshotIds :
          handleClearSnapshot(id) /\ UNCHANGED exceptHandler

SpecHandler == Init /\ [][NextHandler]_vars

NextJsonRpc ==
    \/ request /\ UNCHANGED exceptJsonRpc
    \/ \E n \in RpcNumbers :
          timeOut(n) /\ UNCHANGED exceptJsonRpc
    \/ \E key \in inbox, error \in BOOLEAN :
          Respond(key, error) /\ UNCHANGED exceptJsonRpc
    \/ \E message \in RpcMessages :
          Message(message) /\ UNCHANGED exceptJsonRpc
    \/ onLoss /\ UNCHANGED exceptJsonRpc
    \/ stop /\ UNCHANGED exceptJsonRpc

SpecJsonRpc == Init /\ [][NextJsonRpc]_vars

\* a timer that is armed fires unless it is cleared
SpecJsonRpcFair ==
    SpecJsonRpc /\ \A n \in RpcNumbers : WF_vars(timeOut(n) /\ UNCHANGED exceptJsonRpc)

NextStorage ==
    \/ \E batch \in Batches : StorageProcessLogs(batch) /\ UNCHANGED exceptStorage
    \/ \E log \in StorageLogs : ReorgCommit(log) /\ UNCHANGED exceptStorage
    \/ \E from \in StorageBlocks, to \in StorageBlocks, fetched \in SUBSET StorageLogs,
          fails \in BOOLEAN :
          from <= to /\ Reconcile(from, to, fetched, fails) /\ UNCHANGED exceptStorage

SpecStorage == Init /\ [][NextStorage]_vars

NextCoroutine ==
    \/ CoreStart /\ UNCHANGED exceptCoroutine
    \/ \E batch \in NewEvents : StorageOnNewEvent(batch) /\ UNCHANGED exceptCoroutine
    \/ LoopHead /\ UNCHANGED exceptCoroutine
    \/ Resume /\ UNCHANGED exceptCoroutine
    \/ \E failsAt \in 0..(sliceSize + 1) : ProcessLogsEnds(failsAt) /\ UNCHANGED exceptCoroutine
    \/ Retry /\ UNCHANGED exceptCoroutine
    \/ \E log \in ChainLogs : ReorgFinds(log) /\ UNCHANGED exceptCoroutine
    \/ ReorgCommitEnds /\ UNCHANGED exceptCoroutine
    \/ ReorgBlock /\ UNCHANGED exceptCoroutine
    \/ ReorgSnapshots /\ UNCHANGED exceptCoroutine
    \/ \E throws \in BOOLEAN : ReorgStorage(throws) /\ UNCHANGED exceptCoroutine
    \/ CoreStop /\ UNCHANGED exceptCoroutine
    \/ Restart /\ UNCHANGED exceptCoroutine

SpecCoroutine == Init /\ [][NextCoroutine]_vars

\* the coroutines of Storage and Reorg go on whenever they can: every await of
\* theirs on the database, on a timer or on each other returns. Nothing is
\* assumed of the node (newEvent, missed logs) and of the operator (stop,
\* restart)
FairCoroutine ==
    /\ WF_vars(CoreStart /\ UNCHANGED exceptCoroutine)
    /\ WF_vars(LoopHead /\ UNCHANGED exceptCoroutine)
    /\ WF_vars(Resume /\ UNCHANGED exceptCoroutine)
    /\ WF_vars(\E failsAt \in 0..(sliceSize + 1) :
                  ProcessLogsEnds(failsAt) /\ UNCHANGED exceptCoroutine)
    /\ WF_vars(Retry /\ UNCHANGED exceptCoroutine)
    /\ WF_vars(ReorgCommitEnds /\ UNCHANGED exceptCoroutine)
    /\ WF_vars(ReorgBlock /\ UNCHANGED exceptCoroutine)
    /\ WF_vars(ReorgSnapshots /\ UNCHANGED exceptCoroutine)
    /\ WF_vars(\E throws \in BOOLEAN : ReorgStorage(throws) /\ UNCHANGED exceptCoroutine)

SpecCoroutineFair == SpecCoroutine /\ FairCoroutine

NextWebSocket ==
    \/ start /\ UNCHANGED exceptWebSocket
    \/ onOpen /\ UNCHANGED exceptWebSocket
    \/ onClose /\ UNCHANGED exceptWebSocket
    \/ onError /\ UNCHANGED exceptWebSocket
    \/ onInterval /\ UNCHANGED exceptWebSocket
    \/ onPong /\ UNCHANGED exceptWebSocket
    \/ keepAliveTimeOut /\ UNCHANGED exceptWebSocket
    \/ reconnectTimer /\ UNCHANGED exceptWebSocket
    \/ add /\ UNCHANGED exceptWebSocket
    \/ \E s \in Subscribers, failed \in BOOLEAN : onResponse(s, failed) /\ UNCHANGED exceptWebSocket
    \/ \E s \in Subscribers : onRequestTimeOut(s) /\ UNCHANGED exceptWebSocket
    \/ \E s \in Subscribers : onSubscribeFailed(s) /\ UNCHANGED exceptWebSocket
    \/ stopWebSocket /\ UNCHANGED exceptWebSocket

SpecWebSocket == Init /\ [][NextWebSocket]_vars

\* timers fire, catch handlers run, and a socket that was asked to close
\* emits 'close'
FairWebSocket ==
    /\ WF_vars(start /\ UNCHANGED exceptWebSocket)
    /\ WF_vars(reconnectTimer /\ UNCHANGED exceptWebSocket)
    /\ WF_vars(socketClosing /\ onClose /\ UNCHANGED exceptWebSocket)
    /\ WF_vars(\E s \in Subscribers : onSubscribeFailed(s) /\ UNCHANGED exceptWebSocket)

SpecWebSocketFair == SpecWebSocket /\ FairWebSocket

NextSubTables ==
    \/ init /\ UNCHANGED exceptSubTables
    \/ \E transactional \in BOOLEAN : Allocate(transactional) /\ UNCHANGED exceptSubTables
    \/ RestartEvents /\ UNCHANGED exceptSubTables

SpecSubTables == Init /\ [][NextSubTables]_vars

NextBlocks ==
    \/ \E c \in Callers, n \in BlockKeys : getBlock(c, n) /\ UNCHANGED exceptBlocks
    \/ \E c \in Callers : Acquired(c) /\ UNCHANGED exceptBlocks
    \/ \E c \in Callers, fails \in BOOLEAN : FetchEnds(c, fails) /\ UNCHANGED exceptBlocks
    \/ \E n \in BlockKeys : Evict(n) /\ UNCHANGED exceptBlocks

SpecBlocks == Init /\ [][NextBlocks]_vars
\* ------------------------------------------------- properties of SpecEvents

\* C3: the sum of EventIndex.size(k) over all sub-tables equals the number of
\* event rows stored in the sub-tables, after any sequence of create and
\* destroyOne calls, rolled back transactions included
C3_SizeSumEqualsRowCount == instanceSize = RowCount

\* C4: every stored event e has exactly one sub-table k with
\* prev_max(k) < e.blockNumber <= blockNumber_max(k), its row is in that
\* sub-table, and findOne(id, e.blockNumber) returns it
C4_OneRangeHoldsEachEvent ==
    \A k \in TableIds : \A e \in tables[k] :
        /\ {j \in 1..Len(indexes) : InRange(j, e.blockNumber)} = {k}
        /\ FindOne(Condition(e.id, e.blockNumber, TRUE)) = e
        /\ FindOne(Condition(e.id, e.blockNumber, FALSE)) = e

\* events in two sub-tables, an older one and the tail, found again by findOne
C4_Witness ==
    /\ Len(indexes) >= 2
    /\ tables[2] # {}
    /\ \E e \in tables[1] : FindOne(Condition(e.id, e.blockNumber, TRUE)) = e

\* C5 as stated: no sub-table holds more than N_max events, whatever the block
\* numbers of the created events
C5_NoTableAboveMax ==
    \A k \in TableIds : Cardinality(tables[k]) <= maxSizeForSingleTable

\* C5 amended: a step raises size(k) above N_max only for an existing
\* sub-table whose blockNumber_max it leaves alone, that is by a create of an
\* event within the range of k; appending to the tail or allocating a new
\* sub-table never exceeds N_max
C5_OnlyInRangeInsertsExceedMax ==
    [][\A k \in 1..Len(indexes') :
          (/\ indexes'[k].size > maxSizeForSingleTable
           /\ (k > Len(indexes) \/ indexes'[k].size > indexes[k].size))
          => (k <= Len(indexes) /\ indexes'[k].blockNumber = indexes[k].blockNumber)]_vars

\* a sub-table that in-range creates have filled beyond N_max
C5_Witness ==
    \E k \in 1..Len(indexes) :
        /\ indexes[k].size > maxSizeForSingleTable
        /\ Cardinality(tables[k]) > maxSizeForSingleTable

\* the placement a create step shows: some sub-table k gains the row e
Placed(k, e) ==
    LET hits == {j \in 1..Len(indexes) : InRange(j, e.blockNumber)}
    IN  IF hits # {} THEN k = SetMin(hits) /\ Len(indexes') = Len(indexes)
        ELSE IF Len(indexes) > 0 /\ indexes[Len(indexes)].size < maxSizeForSingleTable
             THEN k = Len(indexes) /\ Len(indexes') = Len(indexes)
        ELSE k = Len(indexes) + 1 /\ Len(indexes') = Len(indexes) + 1

\* C6: a created event goes into the smallest-k sub-table whose range holds
\* its blockNumber, otherwise into the tail if its size < N_max, otherwise into
\* a newly allocated sub-table with k = current count; and n creates of
\* strictly increasing block numbers on an empty store give ceil(n / N_max)
\* sub-tables
C6_Placement ==
    /\ [][transaction'.state = transaction.state =>
            \A k \in TableIds : \A e \in tables'[k] \ tables[k] : Placed(k, e)]_vars
    /\ [](ascending =>
            indexSize = (RowCount + maxSizeForSingleTable - 1) \div maxSizeForSingleTable)

\* N_max + 1 creates of increasing blocks: the last one found the tail full
C6_Witness ==
    /\ ascending
    /\ RowCount = maxSizeForSingleTable + 1
    /\ indexSize = 2

\* C7 as stated: blockNumber_max(k) of every non-empty sub-table equals the
\* maximum blockNumber among the events currently stored in k
C7_MaxEqualsStoredMax ==
    \A k \in 1..Len(indexes) :
        tables[k] # {} => indexes[k].blockNumber = SetMax({e.blockNumber : e \in tables[k]})

\* C7 amended: blockNumber_max(k) is an upper bound of the block numbers of the
\* events currently stored in k (destroyOne and rollback never lower it)
C7_MaxBoundsStoredMax ==
    \A k \in TableIds : tables[k] # {} =>
        /\ k <= Len(indexes)
        /\ indexes[k].blockNumber >= SetMax({e.blockNumber : e \in tables[k]})

\* a non-empty sub-table whose newest event was destroyed
C7_Witness ==
    \E k \in 1..Len(indexes) :
        /\ tables[k] # {}
        /\ indexes[k].blockNumber > SetMax({e.blockNumber : e \in tables[k]})

ScanFroms ==
    {FromNumber(b) : b \in BlockNumbers}
        \cup {FromPosition(b, p) : b \in BlockNumbers, p \in TxLogPairs}

ScanTos == {ToUndefined} \cup ScanFroms

\* Position strictly greater than from and <= to
InScanRange(from, to, e) ==
    /\ IF from.kind = "number" THEN e.blockNumber > from.blockNumber ELSE LogBefore(from, e)
    /\ CASE to.kind = "undefined" -> TRUE
         [] to.kind = "number" -> e.blockNumber <= to.blockNumber
         [] OTHER -> ~LogBefore(to, e)

\* C8: findAllOrderByBTLASC(from, to) yields every stored event with
\* from < Position <= to exactly once, in strictly ascending position order,
\* in batches of at most limit events
C8_ScanYieldsRange ==
    \A from \in ScanFroms, to \in ScanTos, limit \in 1..MaxLimit :
        LET batches == FindAllOrderByBTLASC(from, to, limit).batches
            flat == Flatten(batches)
        IN  /\ Range(flat) = {e \in AllRows : InScanRange(from, to, e)}
            /\ \A i \in 1..(Len(flat) - 1) : LogBefore(flat[i], flat[i + 1])
            /\ \A b \in 1..Len(batches) : Len(batches[b]) \in 1..limit

\* a scan over two sub-tables that pages: three batches of one event
C8_Witness ==
    /\ Len(indexes) >= 2
    /\ tables[1] # {}
    /\ tables[2] # {}
    /\ Len(FindAllOrderByBTLASC(FromPosition(0, <<0, 0>>), ToUndefined, 1).batches) = 3
\* ------------------------------------------------- properties of SpecSource

\* the batches a step pushes to the log channel
Pushed == IF Len(logs') > Len(logs) THEN SubSeq(logs', Len(logs) + 1, Len(logs')) ELSE <<>>

\* C1: a log is pushed to the log channel only when its blockNumber <= head - C,
\* and a head update promotes exactly the held logs with blockNumber <= head - C,
\* in position order, the others staying held
C1_ConfirmationWindow ==
    [][/\ \A i \in 1..Len(Pushed) : \A j \in 1..Len(Pushed[i]) :
             Pushed[i][j].blockNumber <= head' - confirmation
       /\ head' # head =>
             LET sorted == SortMixedLogs(confirmingLogs)
                 promoted == SelectSeq(sorted,
                                LAMBDA log : log.blockNumber <= head' - confirmation)
                 held == SelectSeq(sorted,
                                LAMBDA log : log.blockNumber > head' - confirmation)
             IN  /\ Pushed = IF promoted = <<>> THEN <<>> ELSE <<promoted>>
                 /\ Range(confirmingLogs') = Range(held)]_vars

\* nothing is on its way: no sync pass, no notification, no head, no batch,
\* no subscription request
Drained ==
    /\ connected
    /\ syncing = "idle"
    /\ subscribing = {}
    /\ notifications = <<>>
    /\ blockNumbers = <<>>
    /\ pendingLogs = <<>>
    /\ logs = <<>>

\* C2: after synced, once the pipeline has drained, every log of the node's
\* getLogs view for the subscribed addresses with blockNumber <= head - C is in
\* the event store
C2_Completeness ==
    (synced /\ Drained /\ head # Undefined) =>
        \A log \in nodeLogs :
            (log.address \in subscriptions /\ log.blockNumber <= head - confirmation)
                => log \in storedLogs


\* C17: synced is emitted once the initial sync pass has finished and the log
\* channel has drained: when no sync pass is running and nothing is on its way
\* to the log channel or in it, synced has been emitted
C17_SyncedOnceQuiescent == (Drained /\ confirmingLogs = <<>>) => synced

\* the batch the next newEvent hands to the downstream plugins
NewEventBatch == Resolve(Head(logs))

\* C18: every newEvent batch is sorted by (blockNumber, transactionIndex,
\* logIndex) ascending, the logs of a newly discovered instrument included
C18_NewEventSorted ==
    [][logs # <<>> /\ logs' = Tail(logs) =>
          \A i, j \in 1..Len(NewEventBatch) :
             i < j => ~LogBefore(NewEventBatch[j], NewEventBatch[i])]_vars

Notified == notifications # <<>> /\ notifications' = Tail(notifications) /\ losses' = losses

NewLog == Head(notifications)

\* the log is held in pendingLogs
Held ==
    /\ Len(pendingLogs') > Len(pendingLogs)
    /\ pendingLogs'[Len(pendingLogs')] = NewLog
    /\ UNCHANGED <<confirmingLogs, logs>>

\* the log is fed into the confirmation stage: it is the last of the
\* confirming logs, or of a batch that is pushed to the channel
FedDirectly ==
    /\ UNCHANGED pendingLogs
    /\ \/ /\ Len(confirmingLogs') > Len(confirmingLogs)
          /\ confirmingLogs'[Len(confirmingLogs')] = NewLog
       \/ /\ Pushed # <<>>
          /\ Pushed[Len(Pushed)][Len(Pushed[Len(Pushed)])] = NewLog

\* the log is left to the sync pass
Dropped == UNCHANGED <<pendingLogs, confirmingLogs, logs>>

IsSuffix(s, t) == Len(s) <= Len(t) /\ SubSeq(t, Len(t) - Len(s) + 1, Len(t)) = s

\* a sync pass ends, the plugin running
PassEnds == syncing # "idle" /\ syncing' = "idle" /\ ~sourceStopped

\* the pending logs the pass ends with: a reset of the target drops the ones
\* below it
KeptPending ==
    IF syncing = "reset" \/ instruments' # instruments
    THEN AtOrAbove(pendingLogs, nodeHead) ELSE pendingLogs

\* the end of the pass flushes its pending logs in sorted order into the
\* confirmation stage
Flushed ==
    LET sorted == SortMixedLogs(KeptPending)
        held == SelectSeq(sorted, LAMBDA log :
                    head = Undefined \/ log.blockNumber > head - confirmation)
        confirmedLogs == SelectSeq(sorted, LAMBDA log :
                    ~(head = Undefined \/ log.blockNumber > head - confirmation))
    IN  /\ pendingLogs' = <<>>
        /\ IsSuffix(held, confirmingLogs')
        /\ confirmedLogs # <<>> => logs' # <<>> /\ logs'[Len(logs')] = confirmedLogs

C29_RemovedLogs ==
    /\ [][Notified /\ NewLog.removed /\ ~(syncing # "idle" /\ syncTarget > 0) =>
            /\ \A i \in 1..Len(confirmingLogs') :
                  isLog(confirmingLogs'[i]) => ~SamePosition(confirmingLogs'[i], NewLog)
            /\ logs' = logs]_vars
    /\ [][logs # <<>> /\ logs' = Tail(logs) =>
            \A i \in 1..Len(NewEventBatch) : ~NewEventBatch[i].removed]_vars

\* the WebSocket reports a loss, or has connected
LossOrConnected == losses' # losses \/ (~connected /\ connected')

\* C31: every loss and every connected event triggers a full resync: a sync
\* pass starts at or after the event, and a pass that starts fetches from the
\* latest stored block up to the head of the node
C31_FullResync ==
    /\ [][LossOrConnected => syncing' = "reset"]_vars
    /\ [][syncing = "reset" /\ syncing' = "fetching" =>
            /\ fetching'.from = storageBlockNumber
            /\ syncTarget' = nodeHead]_vars

\* C37: the head notifications are processed one at a time, in the order of
\* their delivery, and latestBlockNumber never decreases, whatever the heads
\* the node delivers
C37_HeadNeverDecreases ==
    /\ [][head' # head =>
            /\ blockNumbers # <<>>
            /\ head' = Head(blockNumbers)
            /\ blockNumbers' = Tail(blockNumbers)]_vars
    /\ [][head' >= head]_vars

\* ------------------------------------------- properties of the Snapshots

\* nothing is on its way to the snapshot worker and no reorg is under way
Quiescent == snapshotsChannel = <<>> /\ working = "idle" /\ reorgPhase = "idle" /\ ~stopped

\* the `to` arguments tried: every block number and every log position
Tos == {Number(b) : b \in 0..MaxSnapshotBlock} \cup {Position(log) : log \in SnapshotLogs}

Resolves == reorging /\ ~reorging'

\* the rows and the latest snapshot the claim asks for when reorg(R) resolves:
\* no row from block R on, and a latest snapshot at a position up to block
\* R - 1 that holds the stored events up to block R - 1
NoRowFrom(R) == \A row \in snapshotTable' : row.blockNumber < R

Regenerated(R) ==
    /\ latestSnapshot'.defined
    /\ latestSnapshot'.position.blockNumber <= R - 1
    /\ Range(latestSnapshot'.snapshot) = {e \in storedEvents : e.blockNumber <= R - 1}

ReorgEmits ==
    LET events == OrderByBTL({e \in storedEvents : e.blockNumber >= reorgBlockNumber})
    IN  [i \in 1..Len(events) |-> NewParsedEvent(events[i])]

C11_ReorgReemits ==
    [][reorgPhase = "storage" /\ reorgPhase' = "idle" /\ ~stopped
          => snapshotsChannel' = snapshotsChannel \o ReorgEmits]_vars

\* the replay of all the events of the event store, and the position of the
\* last of them
ReplayOfStored == ProcessAll(NewSnapshot, OrderByBTL(storedEvents))

LastStored ==
    LET events == OrderByBTL(storedEvents)
    IN  IF events = <<>> THEN Origin ELSE EventPosition(events[Len(events)])

\* C20: whenever the pipeline is quiescent, the latest snapshot is the replay
\* of all stored events and its position is the position of the last stored
\* event, also after a reorg recovery has completed
C20_LiveSnapshotConsistent ==
    Quiescent =>
        /\ latestSnapshot.defined
        /\ latestSnapshot.snapshot = ReplayOfStored
        /\ latestSnapshot.position = LastStored

\* C33: every reorg() request that was accepted is handled and its promise
\* settles, also when the process is stopped meanwhile
C33_ReorgSettles == reorging ~> ~reorging

\* the worker handles a newParsedEvent message while a latest snapshot is set
AppliesLog ==
    /\ working = "idle" /\ snapshotsChannel # <<>>
    /\ Head(snapshotsChannel).type = "newParsedEvent"
    /\ snapshotsChannel' = Tail(snapshotsChannel)
    /\ stopped' = stopped
    /\ latestSnapshot.defined

\* C34: a newParsedEvent whose position is below the latest position is still
\* applied to the latest snapshot, every row with blockNumber >= its block is
\* deleted and the latest position stays; any other log is applied and the
\* latest position becomes its position; so the latest position never
\* decreases (a reorg unsets it before the replay sets it again)
C34_OutOfOrder ==
    /\ [][AppliesLog =>
            LET log == Head(snapshotsChannel).log
            IN  /\ latestSnapshot'.defined
                /\ latestSnapshot'.snapshot = processParsedLog(latestSnapshot.snapshot, log)
                /\ IF LogBefore(log, latestSnapshot.position)
                   THEN /\ latestSnapshot'.position = latestSnapshot.position
                        /\ \A row \in snapshotTable' : row.blockNumber < log.blockNumber
                   ELSE latestSnapshot'.position = EventPosition(log)]_vars
    /\ [][latestSnapshot.defined /\ latestSnapshot'.defined =>
            ~LogBefore(latestSnapshot'.position, latestSnapshot.position)]_vars

\* a log was applied below the latest position, which stayed where it was
C34_Witness ==
    /\ latestSnapshot.defined
    /\ \E i \in 1..Len(latestSnapshot.snapshot) :
          /\ LogBefore(latestSnapshot.snapshot[i], latestSnapshot.position)
          /\ \E j \in 1..(i - 1) :
                EventPosition(latestSnapshot.snapshot[j]) = latestSnapshot.position
    /\ \A row \in snapshotTable : row.blockNumber < latestSnapshot.position.blockNumber

\* the log applied in this step has reached the persistence threshold
Persists ==
    AppliesLog /\ Head(snapshotsChannel).log.blockNumber - cacheBlockNumber >= interval

\* the row of the latest position and snapshot after the step
SavedRow ==
    [blockNumber |-> latestSnapshot'.position.blockNumber,
     transactionIndex |-> latestSnapshot'.position.transactionIndex,
     logIndex |-> latestSnapshot'.position.logIndex,
     snapshot |-> latestSnapshot'.snapshot]

\* the stored snapshots at or below log.blockNumber - outdated
Outdated == {row \in snapshotTable :
                row.blockNumber <= Head(snapshotsChannel).log.blockNumber - outdated}

ReorgPending == reorgPhase = "snapshots"

\* C12: a lookup without id throws reorging (100) from the request of
\* Snapshots.reorg until it resolves, else unavailable (101) without a latest
\* snapshot, else returns the latest snapshot; a lookup with an id throws
\* generating (102) while the id is generating, else returns the generated
\* snapshot of the id, else throws not found (-32601)
C12_LookupOutcome ==
    /\ LET outcome == getSnapshotById("query", requests, NoSnapshotId)
       IN  /\ ReorgPending => outcome.error = 100
           /\ ~ReorgPending /\ ~latestSnapshot.defined => outcome.error = 101
           /\ ~ReorgPending /\ latestSnapshot.defined =>
                  outcome.error = NoError /\ outcome.snapshot = latestSnapshot.snapshot
    /\ \A id \in SnapshotIds \ {NoSnapshotId} :
          LET outcome == getSnapshotById("query", requests, id)
          IN  /\ (\E entry \in generating : entry.id = id) => outcome.error = 102
              /\ (\A entry \in generating : entry.id # id) =>
                     \/ \E entry \in generated :
                           /\ entry.id = id
                           /\ outcome.error = NoError
                           /\ outcome.snapshot = entry.snapshot
                     \/ /\ \A entry \in generated : entry.id # id
                        /\ outcome.error = -32601

\* a query without id was answered with reorging while the reorged request
\* was still queued or replaying
C12_Witness ==
    /\ ReorgPending
    /\ response.method = "query"
    /\ response.id = NoSnapshotId
    /\ response.error = 100
    /\ generated # {}

\* C13: once a reorg at block R has been handled (Reorg releases Storage), no
\* generated snapshot has an id of a block >= R and every generation under
\* way for a block >= R has had its signal aborted
C13_ReorgEvicts ==
    [][reorgPhase = "storage" /\ reorgPhase' = "idle" =>
          /\ \A entry \in generated' : parseSnapshotId(entry.id).blockNumber < reorgBlockNumber
          /\ \A entry \in generating' :
                parseSnapshotId(entry.id).blockNumber >= reorgBlockNumber => entry.aborted]_vars

\* C14: a generateSnapshot request for an id that is generating throws
\* generating (102) and starts nothing, a request for a generated id returns
\* the id and starts nothing, so that a generation starts only for an id that
\* is neither generating nor generated, and the step that answers a
\* generation, with the id or with an error, takes the id out of generating
C14_SingleFlight ==
    [][/\ requests' = requests + 1 /\ response'.method = "generateSnapshot"
          /\ response'.request = requests' =>
             /\ UNCHANGED <<generating, generated>>
             /\ \/ /\ \E entry \in generating : entry.id = response'.id
                   /\ response'.error = 102
                \/ /\ \A entry \in generating : entry.id # response'.id
                   /\ \E entry \in generated : entry.id = response'.id
                   /\ response'.error = NoError
                   /\ response'.result = "id"
       /\ requests' = requests + 1 /\ response' = response =>
             \E started \in generating' :
                /\ \A entry \in generating \cup generated : entry.id # started.id
                /\ generating' = generating \cup {started}
                /\ UNCHANGED generated
       /\ requests' = requests /\ response' # response =>
             /\ response'.method = "generateSnapshot"
             /\ \E entry \in generating : entry.id = response'.id
             /\ \A entry \in generating' : entry.id # response'.id]_vars

\* a second request for an id arrived while the id was generating
C14_Witness ==
    /\ response.method = "generateSnapshot"
    /\ response.error = 102
    /\ \E entry \in generating : entry.id = response.id /\ entry.request < response.request

\* the `to` argument a snapshot id stands for
ToOf(id) ==
    IF Len(id) = 2 THEN Number(id[2])
    ELSE Position([blockNumber |-> id[2], transactionIndex |-> id[3], logIndex |-> id[4]])

\* C35: a generated snapshot kept under the id of a block or of a position
\* holds, whenever it can be queried, all the stored events up to that block
\* or position: no such event is added to the store while the entry is kept
C35_GeneratedReflectsStore ==
    \A entry \in generated :
        Range(entry.snapshot) = {e \in storedEvents : toCondition(ToOf(entry.id), e)}

\* -------------------------------------------- properties of JSONRPCWebSocket

\* request n has been made
Accepted(n) == n < rpcId

\* C15: a request that was made is completed exactly once: its promise, once
\* settled, stays as it is; it is resolved or rejected with a response only
\* if the response carries the id of the request, and otherwise rejected by
\* its timer, by a loss or by stop; a promise of a request not made is never
\* settled; and every request made is completed in the end
C15_Correlation ==
    /\ [][\A n \in RpcNumbers :
             promises[n].state # "pending" => promises'[n] = promises[n]]_vars
    /\ [](\A n \in RpcNumbers :
             /\ promises[n].reason \in {"result", "error"} =>
                    promises[n].id = [type |-> "string", value |-> n]
             /\ promises[n].state = "resolved" => promises[n].reason = "result"
             /\ promises[n].state = "rejected" =>
                    promises[n].reason \in
                        {"error", "timeout", "loss connection", "JSON RPC closed"}
             /\ ~Accepted(n) => promises[n].state = "pending")
    /\ \A n \in RpcNumbers : Accepted(n) ~> promises[n].state # "pending"

\* one request was answered by its response, one timed out and got its
\* response afterwards, and one was rejected by a loss
C15_Witness ==
    /\ promises[1].state = "resolved"
    /\ promises[2].reason = "timeout" /\ timeOuts[2] = "fired"
    /\ [type |-> "string", value |-> 2] \notin rpcRequests
    /\ promises[3].reason = "loss connection"

\* ------------------------------------------------- properties of Storage

\* processLogs is applied to the batch it was applied to last
AppliedAgain ==
    /\ Len(appliedBatches) >= 1
    /\ Len(appliedBatches') = Len(appliedBatches) + 1
    /\ appliedBatches'[Len(appliedBatches')] = appliedBatches[Len(appliedBatches)]

\* C16: Storage.processLogs applied to the batch it has just been applied to
\* stores no event, calls no handler, emits no newParsedEvent and leaves
\* StorageCache.blockNumber as it is
C16_ProcessLogsIdempotent ==
    [][AppliedAgain =>
          /\ eventRows' = eventRows
          /\ instrumentRows' = instrumentRows
          /\ handlerCalls' = handlerCalls
          /\ parsedEvents' = parsedEvents
          /\ storedBlockNumbers' = storedBlockNumbers
          /\ storageCache' = storageCache]_vars

\* a batch with the NewInstrument log was applied twice in a row, the first
\* application having stored and emitted it
C16_Witness ==
    /\ Len(appliedBatches) >= 2
    /\ appliedBatches[Len(appliedBatches)] = appliedBatches[Len(appliedBatches) - 1]
    /\ \E i \in 1..Len(appliedBatches[Len(appliedBatches)]) : appliedBatches[Len(appliedBatches)][i].address = Gate
    /\ Len(appliedBatches) = 2
    /\ parsedEvents # <<>>
    /\ handlerCalls # <<>>

\* a reconciliation of Reorg ends in this step
Reconciles == reconciled'.count = reconciled.count + 1

\* the fetched logs of the reconciliation that are in its range, whose id is
\* not stored and that parse
Missed ==
    {log \in reconciled'.logs :
        /\ reconciled'.from <= log.blockNumber /\ log.blockNumber <= reconciled'.to
        /\ \A row \in eventRows : row.id # EventPosition(log)
        /\ log.known}

\* C36: a reconciliation over [from, to] leaves every stored event as it is,
\* also those that the fetched logs do not hold, and adds nothing but events
\* of fetched logs of the range whose id is not stored and that parse
C36_NeverDeletes ==
    [][Reconciles =>
          /\ eventRows \subseteq eventRows'
          /\ \/ eventRows' = eventRows
             \/ eventRows' \ eventRows = {EventRow(log, FALSE) : log \in Missed}]_vars

\* a reconciliation has added a missed event while a stored event of its range
\* was absent from the fetched logs, and the stored event is still there
C36_Witness ==
    /\ reconciled.count = 1
    /\ \E row \in eventRows :
          /\ ~row.processed
          /\ \E log \in reconciled.logs : row.id = EventPosition(log)
    /\ \E row \in eventRows :
          /\ row.processed
          /\ reconciled.from <= row.id.blockNumber /\ row.id.blockNumber <= reconciled.to
          /\ \A log \in reconciled.logs : row.id # EventPosition(log)
\* ------------------------------ properties of the Storage coroutine and Reorg

\* Reorg has got the handle block() returns and has not released it yet
Holding == reorgAt \in {"snapshots", "storage"}

\* a slice of a batch is with processLogs, or waits for its retry
InFlight == storageAt \in {"processLogs", "backoff"}

\* C21: block() hands out its handle only when no batch is in progress, after
\* the one in flight has completed; while the handle is held onNewEvent starts
\* no batch; and at most one block is held at a time
C21_BlockingDiscipline ==
    /\ [](Holding => ~InFlight)
    /\ [][Holding' /\ InFlight' => InFlight]_vars
    /\ [](Holding /\ ~noopHandle => blocking)
    /\ [](reorgAt = "waiting" => blocking /\ blocked)

\* processLogs has ended its run on the slice at the head of pendingChunks
ProcessLogsEnded == storageAt = "processLogs" /\ storageAt' # "processLogs"

\* the run was committed: the rows of the whole slice and the block number
Committed ==
    /\ committedRows' =
          RunLogs(Transaction, Head(pendingChunks), Len(Head(pendingChunks))).rows
    /\ committedBlockNumber' = cacheInMemory'
    /\ pendingChunks' = Tail(pendingChunks)

\* the run was rolled back: nothing of it is left, and the same slice is
\* retried after the backoff unless the process has stopped
RolledBack ==
    /\ UNCHANGED <<committedRows, committedBlockNumber, cacheInMemory>>
    /\ coreStopped \/ (storageAt' = "backoff" /\ pendingChunks' = pendingChunks)

\* C22: a batch is processed atomically: its inserts and the update of
\* StorageCache.blockNumber are committed together or not at all, and a failed
\* batch is rolled back and retried, the batches being taken one at a time in
\* the order of arrival
C22_AtomicBatch ==
    /\ [][ProcessLogsEnded => Committed \/ RolledBack]_vars
    /\ [][storageAt = "backoff" /\ storageAt' # "backoff" /\ restarts' = restarts
            => storageAt' = "processLogs" /\ pendingChunks' = pendingChunks]_vars
    /\ [][~coreStopped /\ pendingChunks # <<>> /\ pendingChunks' # pendingChunks
            => pendingChunks' = Tail(pendingChunks)]_vars

\* C23: newParsedEvent is emitted once for a log that ends up stored and never
\* for a log whose transaction was rolled back: no log is delivered twice, and
\* between two slices every delivered log is stored
C23_ParsedEventOnce ==
    /\ \A i, j \in 1..Len(deliveries) : i # j => deliveries[i] # deliveries[j]
    /\ storageAt \in {"idle", "loop"} =>
          \A i \in 1..Len(deliveries) : deliveries[i] \in committedRows

\* C24: startup terminates: from every state of the database Core.init
\* completes and the process starts, also when the reconciliation of
\* Reorg.onInit finds a missed event and calls Snapshots.reorg
C24_StartupTerminates == (phase = "init") ~> (phase = "running")

\* the steps of a reconciliation that has found a reorged block, in order
ReorgOrder(last) == <<"block", "snapshots", last, "release">>

IsPrefix(s, t) == Len(s) <= Len(t) /\ SubSeq(t, 1, Len(s)) = s

\* C25: a reconciliation that has found a reorged block runs block(),
\* Snapshots.reorg, Storage.reorg and the release in this order, each after
\* the one before has completed, and when it is over Storage is released,
\* also when a step has thrown
C25_ReorgOrder ==
    /\ \/ IsPrefix(reorgSteps, ReorgOrder("storage"))
       \/ IsPrefix(reorgSteps, ReorgOrder("storage threw"))
       \/ reorgSteps = <<"invalid block">>
    /\ reorgAt = "snapshots" => reorgSteps = <<"block">>
    /\ reorgAt = "storage" => reorgSteps = <<"block", "snapshots">>
    /\ reorgAt = "idle" => ~blocking /\ ~blocked
    /\ reorgAt = "idle" /\ reorgSteps # <<>> =>
          reorgSteps = <<"invalid block">> \/ reorgSteps[Len(reorgSteps)] = "release"

\* a reconciliation whose Storage.reorg threw is over
C25_Witness ==
    /\ reorgAt = "idle"
    /\ reorgSteps = ReorgOrder("storage threw")
    /\ ~blocking

\* C26: a block() that waits for the batch in flight gets its handle in the
\* end, without a further newEvent and also when the process is stopped
C26_BlockReturns == (reorgAt = "waiting" /\ storageAt = "idle") ~> (reorgAt # "waiting")

\* Storage.processLogs runs on a slice with a log to create
StorageCreates ==
    /\ storageAt = "processLogs"
    /\ \E i \in 1..Len(Head(pendingChunks)) : Head(pendingChunks)[i] \notin committedRows

\* Reorg.commit runs on the event it supplements
ReorgCreates == reorgAt = "commit"

\* C27: Storage is the only writer of the event store, and the calls of
\* create for a chain never overlap, also while Reorg commits the events it
\* supplements
C27_SingleWriter ==
    /\ [][committedRows' # committedRows => ProcessLogsEnded]_vars
    /\ [](~(StorageCreates /\ ReorgCreates))

\* C28: the retry loop of onNewEvent terminates for every batch, also for one
\* with a log at the position of a stored event of another block hash (the
\* history of the deliveries is cut at MaxDeliveries)
C28_RetryTerminates == InFlight ~> (~InFlight \/ Len(deliveries) >= MaxDeliveries)

\* ------------------------------------------------------ WebSocket properties

\* the connection is down and its owner has not disconnected
Down == wsStarted /\ ws = "none" /\ ~disconnected

\* C32: when the keep alive time-out fires, loss is emitted, the socket is
\* dropped and the reconnect timer is armed; and unless the owner called
\* disconnect(), a connection that is down is eventually followed by a new
\* connection attempt, whatever the subscribers' failed requests do
C32_Reconnects ==
    /\ [][lastEmitted' = "loss" /\ lastEmitted # "loss" =>
            ws' = "none" /\ (reconnecting' \/ closing')]_vars
    /\ Down ~> (ws # "none" \/ disconnected)

\* ------------------------------------------------- sub-table properties

\* C38: init() leaves the sub-tables 0 .. last + 30 in place, last being the
\* largest index of an EventIndex row, so that each of the next 30 sub-table
\* allocations of create() finds its table
C38_SubTablesAhead ==
    /\ [][~initializing /\ initializing' /\ indexCount > 0 =>
            \A k \in 0..(indexCount - 1 + subTablesAhead) : k \in models']_vars
    /\ [][~unknownModel /\ unknownModel' => sinceInit >= subTablesAhead]_vars

\* ------------------------------------------------------ Blocks properties

\* the callers of getBlock(n) between lock.ref++ and the finally block
Inside(n) == {c \in Callers : callerKey[c] = n /\ callerAt[c] # "idle"}

Fetching(n) == {c \in Callers : callerKey[c] = n /\ callerAt[c] = "fetching"}

\* C40: for every block number at most one provider fetch is in flight; the
\* callers that arrive meanwhile wait for it, and a caller that gets the lock
\* with the block cached returns it without a fetch, a fetch starting only for
\* a block number the cache does not hold; the lock entry of a block number
\* counts its callers and is there exactly while there is one
C40_SingleFetch ==
    /\ [](\A n \in BlockKeys :
            /\ Cardinality(Fetching(n)) <= 1
            /\ Fetching(n) # {} =>
                  \A c \in Inside(n) \ Fetching(n) : callerAt[c] = "waiting"
            /\ locks[n].entry <=> Inside(n) # {}
            /\ locks[n].ref = Cardinality(Inside(n)))
    /\ [][\A c \in Callers :
            /\ callerAt[c] # "fetching" /\ callerAt'[c] = "fetching" =>
                  callerKey[c] \notin blockCache
            /\ callerAt[c] = "acquired" /\ callerKey[c] \in blockCache /\ callerAt'[c] # "acquired" =>
                  callerAt'[c] = "idle" /\ returned'[c] \in {"waited", "cached"}]_vars

\* a caller has waited for the fetch of another and returned the cached block,
\* and the lock entry is gone
C40_Witness ==
    \E c \in Callers, o \in Callers :
        /\ returned[c] = "waited" /\ returned[o] = "fetched"
        /\ callerKey[c] = callerKey[o]
        /\ ~locks[callerKey[c]].entry
====
